---- MODULE Spec2Model ----
(***************************************************************************)
(* Subscriber retention scripts of JeuneAfriqueAbo.                        *)
(*                                                                         *)
(* Claude_retention_analysis.py:                                           *)
(*   load_and_clean_data -> create_monthly_retention_table ->              *)
(*   calculate_cohort_retention                                            *)
(* gemini/analyse_abo_court.py (and rapport_final.py, lancer_analyse.py):  *)
(*   create_monthly_report (journey segmentation + monthly expansion)      *)
(*                                                                         *)
(* A DataFrame is a sequence of records (row order is the frame's order).  *)
(* A timestamp is a record [y, m, d]; NaT is the missing timestamp.        *)
(* A value formatted with strftime('%m/%Y') is the pair <<month, year>>:   *)
(* the month comes first, as in the string.                                *)
(***************************************************************************)
EXTENDS Integers, Sequences, FiniteSets, TLC

VARIABLES
    df,            \* the transactions read from the CSV file (one row each)
    pc,            \* position of Claude_retention_analysis.main
    df_clean,      \* load_and_clean_data's result
    monthly_data,  \* create_monthly_retention_table: rows before deduplication
    monthly_df,    \* create_monthly_retention_table's result
    retention_df,  \* calculate_cohort_retention's result
    gpc,           \* position of gemini/analyse_abo_court.main
    df_sorted,     \* create_monthly_report: subscriptions with their journey
    final_df,      \* create_monthly_report's result
    significant_data,   \* analyze_retention_trends: rows of the cohorts kept
    avg_retention,      \* analyze_retention_trends: averages per relative month
    monthly_df_clean,   \* calculate_segmented_retention: rows with their segments
    segmented_results,  \* calculate_segmented_retention's result
    jpc,           \* position of gemini/pipeline_JA.main
    ja_df,         \* pipeline_JA.create_monthly_report's result
    raw,           \* the transactions as read by the gemini loaders (text dates)
    lpc,           \* position of gemini/lancer_analyse.main
    df_grouped,    \* lancer_analyse.group_and_repair_data's result
    supprimes,     \* the number of dropped subscriptions it prints
    lancer_sorted, \* lancer_analyse.create_monthly_report: segmented rows
    lancer_df,     \* lancer_analyse.create_monthly_report's result
    rpc,           \* position of gemini/rapport_final.main
    rf_grouped,    \* rapport_final.group_and_repair_data's result
    monthly_df_again, \* create_monthly_retention_table's result when it is run again
    up_columns,    \* the columns of the file read by recherche_upgrade.py
    df_prepared,   \* recherche_upgrade.load_and_prepare_data's result
    df_upgrades,   \* find_revenue_upgrades's result
    final_report_columns, \* the columns of the report of recherche_upgrade.main
    upc,           \* position of recherche_upgrade.main
    fraction,      \* creer_echantillion: the fraction of the customers to sample, in percent
    sampled_customer_ids, \* creer_echantillion: the customers drawn
    df_sampled,    \* creer_echantillion: the rows written to the output file
    spc,           \* creer_echantillion: position of sample_by_customer_id
    df_churners,   \* analyze_churn_characteristics: the rows of the journeys of at most 3 months
    df_retained,   \* analyze_churn_characteristics: the rows of the longer journeys
    apc,           \* position of analyze_churn_characteristics
    segments_data, \* dashboard_retention: the sheets of segments that were loaded
    selected_segment, \* dashboard_retention: value of segment-dropdown at the last callback
    view_type,     \* dashboard_retention: value of view-type-dropdown at the last callback
    cohort_filter, \* dashboard_retention: value of cohort-filter-dropdown at the last callback
    evolution_data, \* dashboard_retention: evolution_data of the last callback
    main_segments, \* dashboard_retention: main_segments of the last callback
    figure,        \* dashboard_retention: the kind of figure the last callback returned
    rf_df,         \* rapport_final: the monthly report
    callbacks,     \* dashboard_retention: the number of callbacks of the segment chart so far
    script,        \* the script whose main is followed step by step
    source,        \* what it finds on disk: the file and its columns
    mpc,           \* position of that main
    table,         \* what its last stage returned: a table, None, or nothing yet
    ran,           \* the stages that have worked through a table
    written        \* whether it has written its output file

\* the variables of the steps 1 to 3 of Claude_retention_analysis.main and of
\* gemini/analyse_abo_court.create_monthly_report
core == <<df, pc, df_clean, monthly_data, monthly_df, retention_df,
          gpc, df_sorted, final_df>>

\* the variables of the other steps and scripts
others == <<significant_data, avg_retention, monthly_df_clean,
            segmented_results, jpc, ja_df, raw, lpc, df_grouped, supprimes,
            lancer_sorted, lancer_df, rpc, rf_grouped, script, source, mpc,
            table, ran, written,
            monthly_df_again,
            up_columns,
            df_prepared,
            df_upgrades,
            final_report_columns,
            upc,
            fraction,
            sampled_customer_ids,
            df_sampled,
            spc,
            df_churners,
            df_retained,
            apc,
            segments_data,
            selected_segment,
            view_type,
            cohort_filter,
            evolution_data,
            main_segments,
            figure,
            rf_df,
            callbacks>>

\* the tables of Claude_retention_analysis.main, steps 1 to 3
core_data == <<df, df_clean, monthly_data, monthly_df, retention_df>>

\* the variables of the other scripts and of the mains
gemini_others == <<jpc, ja_df, raw, lpc, df_grouped, supprimes, lancer_sorted,
                   lancer_df, rpc, rf_grouped, script, source, mpc, table,
                   ran, written,
                   monthly_df_again,
                   up_columns,
                   df_prepared,
                   df_upgrades,
                   final_report_columns,
                   upc,
                   fraction,
                   sampled_customer_ids,
                   df_sampled,
                   spc,
                   df_churners,
                   df_retained,
                   apc,
                   segments_data,
                   selected_segment,
                   view_type,
                   cohort_filter,
                   evolution_data,
                   main_segments,
                   figure,
                   rf_df,
                   callbacks>>

\* the tables of steps 4 and 6 of Claude_retention_analysis.main, of its
\* second run and of the scripts outside gemini/
claude_others == <<significant_data, avg_retention, monthly_df_clean,
                   segmented_results,
                   monthly_df_again,
                   up_columns,
                   df_prepared,
                   df_upgrades,
                   final_report_columns,
                   upc,
                   fraction,
                   sampled_customer_ids,
                   df_sampled,
                   spc,
                   df_churners,
                   df_retained,
                   apc,
                   segments_data,
                   selected_segment,
                   view_type,
                   cohort_filter,
                   evolution_data,
                   main_segments,
                   figure,
                   rf_df,
                   callbacks>>

\* the variables of recherche_upgrade.main
upgrade_vars == <<up_columns, df_prepared, df_upgrades, final_report_columns,
                  upc>>

\* the variables of gemini/creer_echantillion.sample_by_customer_id
sample_vars == <<fraction, sampled_customer_ids, df_sampled, spc>>

\* the variables of analyze_churn_characteristics
churn_vars == <<df_churners, df_retained, apc>>

\* the variables of dashboard_retention
dash_vars == <<segments_data, selected_segment, view_type, cohort_filter,
               evolution_data, main_segments, figure, callbacks>>

\* the variables of the scripts beside the pipelines
tool_vars == <<sample_vars, churn_vars, dash_vars>>

\* the report of gemini/rapport_final.main
rf_vars == <<rf_df>>

\* the variables of gemini/pipeline_JA.main
ja_vars == <<jpc, ja_df>>

\* the variables of gemini/lancer_analyse.main and gemini/rapport_final.main
repair_vars == <<raw, lpc, df_grouped, supprimes, lancer_sorted, lancer_df,
                 rpc, rf_grouped>>

\* the variables of the mains followed step by step
main_vars == <<script, source, mpc, table, ran, written>>

vars == <<core, others>>

-----------------------------------------------------------------------------
(* Bounds of the model                                                     *)

\* most transactions in one input file
MaxTx == 3

\* number of customers
NCust == 2

\* most rows of a file in which values may be missing
MaxMissing == 3

\* last relative month of a monthly table given to calculate_cohort_retention
MaxRel == 2

\* most rows of such a table
MaxTable == 3

-----------------------------------------------------------------------------
(* Timestamps                                                              *)

NaT == [y |-> 0, m |-> 0, d |-> 0]

Date(y, m, d) == [y |-> y, m |-> m, d |-> d]

isna(t) == t = NaT

IsLeap(y) == (y % 4 = 0 /\ y % 100 # 0) \/ y % 400 = 0

DaysInMonth(y, m) ==
    IF m = 2 THEN (IF IsLeap(y) THEN 29 ELSE 28)
    ELSE IF m \in {4, 6, 9, 11} THEN 30 ELSE 31

RECURSIVE DaysBeforeMonth(_, _)
DaysBeforeMonth(y, m) ==
    IF m = 1 THEN 0 ELSE DaysBeforeMonth(y, m - 1) + DaysInMonth(y, m - 1)

\* days from 0001-01-01 to the first of January of year y
DaysBeforeYear(y) ==
    LET p == y - 1 IN p * 365 + (p \div 4) - (p \div 100) + (p \div 400)

\* the proleptic Gregorian ordinal of a timestamp (datetime.toordinal)
Ordinal(t) == DaysBeforeYear(t.y) + DaysBeforeMonth(t.y, t.m) + t.d

\* (a - b).dt.days for two timestamps without time of day
DaysBetween(a, b) == Ordinal(a) - Ordinal(b)

\* a <= b on timestamps
DateLE(a, b) ==
    \/ a.y < b.y
    \/ a.y = b.y /\ a.m < b.m
    \/ a.y = b.y /\ a.m = b.m /\ a.d <= b.d

DateLT(a, b) == DateLE(a, b) /\ a # b

\* t.replace(day=1), and t.to_period('M').to_timestamp()
FirstOfMonth(t) == [t EXCEPT !.d = 1]

\* t.strftime('%m/%Y')
StrfMonth(t) == <<t.m, t.y>>

\* (a.year - b.year) * 12 + (a.month - b.month)
MonthsDiff(a, b) == (a.y - b.y) * 12 + (a.m - b.m)

\* the first of the month after the first-of-month t
NextMonth(t) ==
    IF t.m = 12 THEN [t EXCEPT !.y = t.y + 1, !.m = 1]
    ELSE [t EXCEPT !.m = t.m + 1]

-----------------------------------------------------------------------------
(* Frames                                                                  *)

Range(s) == {s[i] : i \in 1..Len(s)}

RECURSIVE Concat(_)
Concat(ss) == IF ss = <<>> THEN <<>> ELSE Head(ss) \o Concat(Tail(ss))

\* Series.unique(): the distinct values in order of first appearance
Unique(s) ==
    LET first == SelectSeq([i \in 1..Len(s) |-> i],
                           LAMBDA i : \A j \in 1..(i - 1) : s[j] # s[i])
    IN [k \in 1..Len(first) |-> s[first[k]]]

\* Series.min() of timestamps, NaT skipped; NaT when there is none
RECURSIVE MinDate(_)
MinDate(s) ==
    IF s = <<>> THEN NaT
    ELSE LET r == MinDate(Tail(s))
             x == Head(s)
         IN IF isna(x) THEN r
            ELSE IF isna(r) THEN x
            ELSE IF DateLE(x, r) THEN x ELSE r


\* the months of a frame column, ascending: sorted(Series.unique())
RECURSIVE SortedInts(_)
SortedInts(S) ==
    IF S = {} THEN <<>>
    ELSE LET x == CHOOSE v \in S : \A w \in S : v <= w
         IN <<x>> \o SortedInts(S \ {x})

\* the order of two rows' sort keys, each a tuple of numbers: the first
\* column on which they differ decides
RECURSIVE KeyLE(_, _)
KeyLE(a, b) ==
    IF a = <<>> THEN TRUE
    ELSE IF Head(a) # Head(b) THEN Head(a) < Head(b)
    ELSE KeyLE(Tail(a), Tail(b))

\* DataFrame.sort_values(by): key[i] is the sort key of row s[i]; rows with
\* equal keys keep their order
SortValues(s, key) ==
    LET keys == key \o <<>>
        before(j, i) ==
            IF keys[j] = keys[i] THEN j < i ELSE KeyLE(keys[j], keys[i])
        rank == [i \in 1..Len(s) |->
                    1 + Cardinality({j \in 1..Len(s) : before(j, i)})] \o <<>>
        order == [k \in 1..Len(s) |-> CHOOSE i \in 1..Len(s) : rank[i] = k]
    IN [k \in 1..Len(s) |-> s[order[k]]]

\* drop_duplicates(subset, keep='last'): the last row of every key is kept
DropDuplicatesLast(s, key) ==
    LET keep(i) == \A j \in (i + 1)..Len(s) : key[j] # key[i]
        kept == SelectSeq([i \in 1..Len(s) |-> i], keep)
    IN [k \in 1..Len(kept) |-> s[kept[k]]]

\* DataFrame.drop_duplicates(subset): key[i] is the subset of row s[i]; the
\* first row of every key is kept
DropDuplicates(s, key) ==
    LET keep(i) == \A j \in 1..(i - 1) : key[j] # key[i]
        kept == SelectSeq([i \in 1..Len(s) |-> i], keep)
    IN [k \in 1..Len(kept) |-> s[kept[k]]]

\* frame['customer_id'].nunique()
NUniqueCustomers(frame) ==
    Cardinality({frame[i].customer_id : i \in 1..Len(frame)})

-----------------------------------------------------------------------------
(* Claude_retention_analysis.py                                            *)

\* a missing customer_id and a missing subscription_id (NaN)
NoCustomer == 0

NoSubscription == 0

\* the key of sort_values(['customer_id', 'order_date']): NaN and NaT sort
\* last
ByCustomerThenOrderDate(t) ==
    LET customer == IF t.customer_id = NoCustomer THEN <<1, 0>>
                    ELSE <<0, t.customer_id>>
    IN IF isna(t.order_date) THEN customer \o <<1, 0>>
       ELSE customer \o <<0, Ordinal(t.order_date)>>

\* frame.sort_values(['customer_id', 'order_date'])
SortByCustomerThenOrderDate(frame) ==
    SortValues(frame, [i \in 1..Len(frame) |-> ByCustomerThenOrderDate(frame[i])])

\* a date whose year, month and day are no date: pd.to_datetime raises
Unparseable == [y |-> -1, m |-> 0, d |-> 0]

\* the conversion of the dates raises in each of the three attempts of
\* load_and_clean_data: the last one drops the rows in which a year, a month
\* or a day is missing and converts the others without errors='coerce'
ConversionRaises(frame) ==
    \E i \in 1..Len(frame) :
        /\ ~isna(frame[i].order_date)
        /\ ~isna(frame[i].echeance_date)
        /\ Unparseable \in {frame[i].order_date, frame[i].echeance_date}

\* load_and_clean_data: the rows without a date or without customer_id are
\* dropped, the rest is sorted by customer and start date; when the
\* conversion raises the function returns None, here the table without rows
\* (main gives up on both)
load_and_clean_data(frame) ==
    LET kept == SelectSeq(frame, LAMBDA t :
                    /\ ~isna(t.order_date)
                    /\ ~isna(t.echeance_date)
                    /\ t.customer_id # NoCustomer)
    IN IF ConversionRaises(frame) THEN <<>>
       ELSE SortByCustomerThenOrderDate(kept)

\* the loop with the test current_month < end_month
RECURSIVE MonthsWhileBefore(_, _)
MonthsWhileBefore(current_month, end_month) ==
    IF DateLT(current_month, end_month)
    THEN <<current_month>>
             \o MonthsWhileBefore(NextMonth(current_month), end_month)
    ELSE <<>>

\* the while loop of create_monthly_retention_table: the months from
\* current_month while current_month <= end_month
RECURSIVE MonthsWhile(_, _)
MonthsWhile(current_month, end_month) ==
    IF DateLE(current_month, end_month)
    THEN <<current_month>> \o MonthsWhile(NextMonth(current_month), end_month)
    ELSE <<>>

\* the rows of one transaction with the months counted from the month of the
\* row back to the start of the journey
TransactionRowsCountedBack(transaction, journey_start_month) ==
    LET start_month == FirstOfMonth(transaction.order_date)
        end_month == FirstOfMonth(transaction.echeance_date)
        months == MonthsWhile(start_month, end_month)
    IN [k \in 1..Len(months) |->
          [customer_id |-> transaction.customer_id,
           subscription_id |-> transaction.subscription_id,
           mois |-> StrfMonth(months[k]),
           mois_relatif |-> MonthsDiff(journey_start_month, months[k]),
           date_debut_parcours |-> StrfMonth(journey_start_month),
           frequence |-> transaction.frequence,
           psp |-> transaction.psp,
           tm_source |-> transaction.tm_source,
           tm_medium |-> transaction.tm_medium,
           consolidated_revenues_ht_euro |->
               transaction.consolidated_revenues_ht_euro]]

\* the rows appended to monthly_data for one transaction of a customer
\* whose journey starts in journey_start_month
TransactionRows(transaction, journey_start_month) ==
    LET start_month == FirstOfMonth(transaction.order_date)
        end_month == FirstOfMonth(transaction.echeance_date)
        months == MonthsWhile(start_month, end_month)
    IN [k \in 1..Len(months) |->
          [customer_id |-> transaction.customer_id,
           subscription_id |-> transaction.subscription_id,
           mois |-> StrfMonth(months[k]),
           mois_relatif |-> MonthsDiff(months[k], journey_start_month),
           date_debut_parcours |-> StrfMonth(journey_start_month),
           frequence |-> transaction.frequence,
           psp |-> transaction.psp,
           tm_source |-> transaction.tm_source,
           tm_medium |-> transaction.tm_medium,
           consolidated_revenues_ht_euro |->
               transaction.consolidated_revenues_ht_euro]]

\* the rows appended for one customer: customer_data is the customer's
\* transactions, journey_start their earliest order_date
CustomerRows(frame, customer_id) ==
    LET customer_data == SelectSeq(frame, LAMBDA t : t.customer_id = customer_id)
        journey_start == MinDate([i \in 1..Len(customer_data) |->
                                    customer_data[i].order_date])
        journey_start_month == FirstOfMonth(journey_start)
    IN Concat([i \in 1..Len(customer_data) |->
                 TransactionRows(customer_data[i], journey_start_month)])

\* monthly_data at the end of the loop over df['customer_id'].unique()
MonthlyData(frame) ==
    LET customers == Unique([i \in 1..Len(frame) |-> frame[i].customer_id])
    IN Concat([c \in 1..Len(customers) |-> CustomerRows(frame, customers[c])])

\* monthly_df.drop_duplicates(): without a subset, only rows equal in every
\* column are duplicates
DropDuplicateRows(frame) ==
    DropDuplicates(frame, [i \in 1..Len(frame) |-> frame[i]])

\* monthly_df.drop_duplicates(subset=['customer_id', 'mois'])
DropDuplicateMonths(frame) ==
    DropDuplicates(frame, [i \in 1..Len(frame) |->
                             <<frame[i].customer_id, frame[i].mois>>])

\* create_monthly_retention_table without its drop_duplicates, as
\* create_monthly_report of the gemini scripts returns its rows
create_monthly_retention_tableNotDeduplicated(frame) ==
    MonthlyData(frame)

\* create_monthly_retention_table: the rows of every transaction of every
\* customer, then drop_duplicates(subset=['customer_id', 'mois'])
create_monthly_retention_table(frame) ==
    DropDuplicateMonths(MonthlyData(frame))



-----------------------------------------------------------------------------
(* Binary floating point                                                   *)
(*                                                                         *)
(* The rates are computed in double precision: (a / b) * 100 is the double *)
(* nearest to the product of 100 and the double nearest to a / b. Rounded  *)
(* to decimals it is the rounded quotient 100 * a / b, unless that         *)
(* quotient lies halfway between two decimals (the double is off by less   *)
(* than the distance of any other quotient of such numbers to a halfway    *)
(* point); then the digits of the double decide. A natural number of any   *)
(* size is held as the sequence of its digits in base 256, the lowest      *)
(* first, and a double as m * 2^e with m of at most 53 binary digits.      *)

Base == 2^8

\* the digits of a natural number, the lowest first
RECURSIVE Digits(_)
Digits(n) == IF n = 0 THEN <<>> ELSE <<n % Base>> \o Digits(n \div Base)

\* the digits of x * c + carry, for small numbers c and carry
RECURSIVE TimesSmall(_, _, _)
TimesSmall(x, c, carry) ==
    IF x = <<>> THEN Digits(carry)
    ELSE <<(Head(x) * c + carry) % Base>>
             \o TimesSmall(Tail(x), c, (Head(x) * c + carry) \div Base)

\* first n digits of x, and nothing more when x has fewer
Low(x, n) == SubSeq(x, 1, IF n < Len(x) THEN n ELSE Len(x))

\* the digits of x + y + carry
RECURSIVE AddDigits(_, _, _)
AddDigits(x, y, carry) ==
    IF x = <<>> THEN TimesSmall(y, 1, carry)
    ELSE IF y = <<>> THEN TimesSmall(x, 1, carry)
    ELSE <<(Head(x) + Head(y) + carry) % Base>>
             \o AddDigits(Tail(x), Tail(y), (Head(x) + Head(y) + carry) \div Base)

\* the digits of x - y - borrow, which is not negative
RECURSIVE SubDigits(_, _, _)
SubDigits(x, y, borrow) ==
    IF x = <<>> THEN <<>>
    ELSE LET low == IF y = <<>> THEN borrow ELSE Head(y) + borrow
         IN <<(Head(x) + Base - low) % Base>>
                \o SubDigits(Tail(x), IF y = <<>> THEN y ELSE Tail(y),
                             IF Head(x) < low THEN 1 ELSE 0)

\* x without the zeros at its high end
StripHigh(x) ==
    IF \A i \in 1..Len(x) : x[i] = 0 THEN <<>>
    ELSE SubSeq(x, 1, CHOOSE n \in 1..Len(x) :
                          x[n] # 0 /\ \A i \in (n + 1)..Len(x) : x[i] = 0)

\* the number of binary digits of x, which is not 0
BitLength(x) ==
    8 * (Len(x) - 1)
        + CHOOSE k \in 1..8 : 2^(k - 1) <= x[Len(x)] /\ x[Len(x)] < 2^k

\* x * 2^k
ShiftLeft(x, k) ==
    IF x = <<>> THEN x
    ELSE [i \in 1..(k \div 8) |-> 0] \o TimesSmall(x, 2^(k % 8), 0)

\* x \div 2^k, and whether something is left
ShiftRight(x, k) ==
    LET high == SubSeq(x, (k \div 8) + 1, Len(x))
        s == k % 8
    IN [quotient |->
            StripHigh([i \in 1..Len(high) |->
                (high[i] \div 2^s)
                    + (IF i < Len(high) THEN (high[i + 1] % 2^s) * 2^(8 - s)
                       ELSE 0)]),
        left |-> \/ \E i \in 1..(k \div 8) : x[i] # 0
                 \/ high # <<>> /\ high[1] % 2^s # 0]

\* the order of two natural numbers: -1, 0 or 1
CompareDigits(x, y) ==
    LET differ == {i \in 1..Len(x) : x[i] # y[i]}
        top == CHOOSE i \in differ : \A j \in differ : j <= i
    IN IF Len(x) < Len(y) THEN -1
       ELSE IF Len(x) > Len(y) THEN 1
       ELSE IF differ = {} THEN 0
       ELSE IF x[top] < y[top] THEN -1 ELSE 1

\* the binary digits of the significand of a double
Precision == 53

\* the double 0.0
zero == [m |-> <<>>, e |-> 0, negative |-> FALSE]

\* the double nearest to x * 2^e, or to a little more when more is set; a
\* tie goes to the even significand
fround(x, e, more) ==
    LET k == BitLength(x) - Precision
        above == ShiftRight(x, k - 1)
        kept == ShiftRight(above.quotient, 1).quotient
        up == /\ above.quotient[1] % 2 = 1
              /\ more \/ above.left \/ kept[1] % 2 = 1
    IN IF x = <<>> THEN zero
       ELSE IF k <= 0 THEN [m |-> x, e |-> e, negative |-> FALSE]
       ELSE [m |-> IF up THEN TimesSmall(kept, 1, 1) ELSE kept, e |-> e + k,
             negative |-> FALSE]

\* the double of a natural number of at most Precision binary digits
double(n) == [m |-> Digits(n), e |-> 0, negative |-> FALSE]

\* x * c in double precision, for a double x and a small natural number c
ftimes(x, c) == fround(TimesSmall(x.m, c, 0), x.e, FALSE)

\* the double x with the sign of y
CopySign(x, y) == [x EXCEPT !.negative = y.negative /\ x.m # <<>>]

\* x + y in double precision, for two doubles of any sign
fadd(x, y) ==
    LET e == IF x.e < y.e THEN x.e ELSE y.e
        a == ShiftLeft(x.m, x.e - e)
        b == ShiftLeft(y.m, y.e - e)
        order == CompareDigits(a, b)
    IN IF x.m = <<>> THEN y
       ELSE IF y.m = <<>> THEN x
       ELSE IF x.negative = y.negative
            THEN CopySign(fround(AddDigits(a, b, 0), e, FALSE), x)
       ELSE IF order = 0 THEN zero
       ELSE IF order > 0
            THEN CopySign(fround(StripHigh(SubDigits(a, b, 0)), e, FALSE), x)
       ELSE CopySign(fround(StripHigh(SubDigits(b, a, 0)), e, FALSE), y)

\* x - y in double precision
fsub(x, y) == fadd(x, [y EXCEPT !.negative = ~y.negative /\ y.m # <<>>])

\* the quotient, its digits the highest first, and the rest of the division
\* of a natural number, its digits the highest first, by b < 2^23; r is the
\* rest carried in and q the digits of the quotient found before
RECURSIVE LongDivision(_, _, _, _)
LongDivision(digits, b, r, q) ==
    IF digits = <<>> THEN [quotient |-> q, rest |-> r]
    ELSE LongDivision(Tail(digits), b, (r * Base + Head(digits)) % b,
                      Append(q, (r * Base + Head(digits)) \div b))

\* s in the opposite order
Reverse(s) == [i \in 1..Len(s) |-> s[Len(s) + 1 - i]]

\* x / b in double precision, for a double x that is not 0 and a natural
\* number b with 0 < b < 2^23: x is divided with so many digits after the
\* point that the quotient has more than Precision binary digits
fdiv(x, b) ==
    LET after == IF 8 + Len(Digits(b)) > Len(x.m)
                 THEN 8 + Len(Digits(b)) - Len(x.m) ELSE 0
        division == LongDivision(Reverse(x.m) \o [i \in 1..after |-> 0],
                                 b, 0, <<>>)
        quotient == Reverse(division.quotient)
        whole == StripHigh(quotient)
    IN IF x.m = <<>> THEN zero
       ELSE fround(whole, x.e - 8 * after, division.rest # 0)

\* the order of the double x and the quotient n / d of two small natural
\* numbers: -1 when x is less, 0 when they are equal, 1 when x is more
fcompare(x, n, d) ==
    CompareDigits(TimesSmall(x.m, d, 0), ShiftLeft(Digits(n), 0 - x.e))

\* (a / b) * 100 in double precision
retention_rate(a, b) == ftimes(fdiv(double(a), b), 100)

\* round(x, ndigits) of Python on the double x, in units of the last digit
\* kept (unit is 10^ndigits), when 100 * a / b, which x stands for, lies
\* halfway between q and q + 1 of these units: Python rounds the double
\* itself, and a double that is the halfway point goes to the even digit
round_halfway(x, q, unit) ==
    LET order == fcompare(x, 2 * q + 1, 2 * unit)
    IN IF order < 0 THEN q
       ELSE IF order > 0 THEN q + 1
       ELSE IF q % 2 = 0 THEN q ELSE q + 1

\* round(x, ndigits) of numpy, in the same case: x * 10^ndigits in double
\* precision, rounded to the nearest integer, a tie to the even one
np_round_halfway(x, q, unit) ==
    LET order == fcompare(ftimes(x, unit), 2 * q + 1, 2)
    IN IF order < 0 THEN q
       ELSE IF order > 0 THEN q + 1
       ELSE IF q % 2 = 0 THEN q ELSE q + 1

-----------------------------------------------------------------------------
(* Claude_retention_analysis.py: calculate_cohort_retention                *)

\* the rate cut after its second decimal instead of rounded
RetentionRateTruncated(active_customers, initial_customers) ==
    (active_customers * 10000) \div initial_customers

\* round((active_customers / initial_customers) * 100, 2), in hundredths of
\* a percent (100.0 is 10000): the two counts are Python integers and the
\* rate a Python float
RetentionRate(active_customers, initial_customers) ==
    LET n == active_customers * 10000
        q == n \div initial_customers
        r == n % initial_customers
    IN IF 2 * r < initial_customers THEN q
       ELSE IF 2 * r > initial_customers THEN q + 1
       ELSE round_halfway(retention_rate(active_customers, initial_customers),
                          q, 100)

\* CohortRetention with the customers at month 0 counted over the whole
\* table instead of the cohort's rows
CohortRetentionAllCohorts(frame, cohort) ==
    LET cohort_data == SelectSeq(frame, LAMBDA r : r.date_debut_parcours = cohort)
        initial_customers ==
            NUniqueCustomers(SelectSeq(frame, LAMBDA r : r.mois_relatif = 0))
        months == SortedInts({cohort_data[i].mois_relatif :
                                i \in 1..Len(cohort_data)})
    IN IF initial_customers = 0 THEN <<>>
       ELSE [k \in 1..Len(months) |->
               LET active_customers ==
                       NUniqueCustomers(SelectSeq(cohort_data,
                           LAMBDA r : r.mois_relatif = months[k]))
               IN [cohorte |-> cohort,
                   mois_relatif |-> months[k],
                   clients_initiaux |-> initial_customers,
                   clients_actifs |-> active_customers,
                   taux_retention |->
                       RetentionRate(active_customers, initial_customers)]]

\* the rows appended to retention_results for one cohort
CohortRetention(frame, cohort) ==
    LET cohort_data == SelectSeq(frame, LAMBDA r : r.date_debut_parcours = cohort)
        initial_customers ==
            NUniqueCustomers(SelectSeq(cohort_data, LAMBDA r : r.mois_relatif = 0))
        months == SortedInts({cohort_data[i].mois_relatif :
                                i \in 1..Len(cohort_data)})
    IN IF initial_customers = 0 THEN <<>>
       ELSE [k \in 1..Len(months) |->
               LET active_customers ==
                       NUniqueCustomers(SelectSeq(cohort_data,
                           LAMBDA r : r.mois_relatif = months[k]))
               IN [cohorte |-> cohort,
                   mois_relatif |-> months[k],
                   clients_initiaux |-> initial_customers,
                   clients_actifs |-> active_customers,
                   taux_retention |->
                       RetentionRate(active_customers, initial_customers)]]

\* the key of sort_values(['cohorte', 'mois_relatif']): cohorte is the string
\* 'mm/YYYY', compared character by character, so its month decides first
ByCohorteThenMois(r) == <<r.cohorte[1], r.cohorte[2], r.mois_relatif>>

\* calculate_cohort_retention
calculate_cohort_retention(frame) ==
    LET cohorts == Unique([i \in 1..Len(frame) |-> frame[i].date_debut_parcours])
        retention_results ==
            Concat([c \in 1..Len(cohorts) |-> CohortRetention(frame, cohorts[c])])
    IN SortValues(retention_results,
                  [i \in 1..Len(retention_results) |->
                     ByCohorteThenMois(retention_results[i])])

RECURSIVE SumSeq(_)
SumSeq(s) == IF s = <<>> THEN 0 ELSE Head(s) + SumSeq(Tail(s))

\* the compensated sum of group_mean over the rates of a group, given in
\* hundredths: each rate is the double nearest to its decimal
\*     y = val - compensation;  t = sumx + y
\*     compensation = t - sumx - y;  sumx = t
RECURSIVE SumOfRates(_, _, _)
SumOfRates(rates, sumx, compensation) ==
    IF rates = <<>> THEN sumx
    ELSE LET y == fsub(fdiv(double(Head(rates)), 100), compensation)
             t == fadd(sumx, y)
         IN SumOfRates(Tail(rates), t, fsub(fsub(t, sumx), y))

\* groupby('mois_relatif')['taux_retention'].mean() followed by
\* DataFrame.round(2), in hundredths of a percent, of the rates of a group
mean_taux_retention(rates) ==
    LET total == SumSeq(rates)
        q == total \div Len(rates)
        r == total % Len(rates)
    IN IF 2 * r < Len(rates) THEN q
       ELSE IF 2 * r > Len(rates) THEN q + 1
       ELSE np_round_halfway(fdiv(SumOfRates(rates, zero, zero), Len(rates)),
                             q, 100)

\* the smallest initial population of a cohort kept by analyze_retention_trends
SignificantCohort == 50

\* analyze_retention_trends: the rows of the cohorts that have a row with at
\* least SignificantCohort initial customers
significant_data_of(frame) ==
    LET significant_cohorts ==
            {frame[i].cohorte : i \in {j \in 1..Len(frame) :
                 frame[j].clients_initiaux >= SignificantCohort}}
    IN SelectSeq(frame, LAMBDA r : r.cohorte \in significant_cohorts)

\* analyze_retention_trends: per relative month, the mean retention rate and
\* the sums of the initial and of the active customers of the rows kept
avg_retention_of(significant) ==
    LET months == SortedInts({significant[i].mois_relatif :
                                i \in 1..Len(significant)})
    IN [k \in 1..Len(months) |->
          LET rows == SelectSeq(significant,
                                LAMBDA r : r.mois_relatif = months[k])
          IN [mois_relatif |-> months[k],
              taux_retention |->
                  mean_taux_retention(
                      [i \in 1..Len(rows) |-> rows[i].taux_retention]),
              clients_initiaux |->
                  SumSeq([i \in 1..Len(rows) |-> rows[i].clients_initiaux]),
              clients_actifs |->
                  SumSeq([i \in 1..Len(rows) |-> rows[i].clients_actifs])]]

\* a missing revenue (NaN), a missing category (NaN) and the payment provider
\* given to the rows without one
NoRevenue == -1

NoValue == "nan"

\* psp.fillna('CB')
psp_clean(psp) == IF psp = NoValue THEN "CB" ELSE psp

\* pd.cut(revenue.fillna(0), bins=[0, 5, 10, 15, 20, inf], labels): the bins
\* are open on the left and closed on the right; a value in no bin has no
\* category. The labels are written without their euro sign.
revenue_tranche(revenue) ==
    LET r == IF revenue = NoRevenue THEN 0 ELSE revenue
    IN IF 0 < r /\ r <= 5 THEN "0-5"
       ELSE IF 5 < r /\ r <= 10 THEN "5-10"
       ELSE IF 10 < r /\ r <= 15 THEN "10-15"
       ELSE IF 15 < r /\ r <= 20 THEN "15-20"
       ELSE IF 20 < r THEN ">20"
       ELSE NoValue

\* monthly_df_clean: the monthly rows with the two cleaned columns
MonthlyDfClean(frame) ==
    [i \in 1..Len(frame) |->
        [customer_id |-> frame[i].customer_id,
         subscription_id |-> frame[i].subscription_id,
         mois |-> frame[i].mois,
         mois_relatif |-> frame[i].mois_relatif,
         date_debut_parcours |-> frame[i].date_debut_parcours,
         frequence |-> frame[i].frequence,
         psp |-> frame[i].psp,
         tm_source |-> frame[i].tm_source,
         tm_medium |-> frame[i].tm_medium,
         consolidated_revenues_ht_euro |-> frame[i].consolidated_revenues_ht_euro,
         psp_clean |-> psp_clean(frame[i].psp),
         revenue_tranche |-> revenue_tranche(frame[i].consolidated_revenues_ht_euro)]]

\* the segments dictionary, in its order: segment_name and column
segments ==
    << <<"frequence", "frequence">>, <<"tm_source", "tm_source">>,
       <<"tm_medium", "tm_medium">>, <<"psp", "psp_clean">>,
       <<"revenue_tranche", "revenue_tranche">> >>

\* the smallest initial population of a cohort of a segment value
SignificantSegment == 10

\* the rows appended to segment_retention for one cohort of one segment value
SegmentCohortRetention(segment_data, segment_name, segment_value, cohort) ==
    LET cohort_segment_data ==
            SelectSeq(segment_data, LAMBDA r : r.date_debut_parcours = cohort)
        initial_customers ==
            NUniqueCustomers(SelectSeq(cohort_segment_data,
                                       LAMBDA r : r.mois_relatif = 0))
        months == SortedInts({cohort_segment_data[i].mois_relatif :
                                i \in 1..Len(cohort_segment_data)})
    IN IF initial_customers < SignificantSegment THEN <<>>
       ELSE [k \in 1..Len(months) |->
               LET active_customers ==
                       NUniqueCustomers(SelectSeq(cohort_segment_data,
                           LAMBDA r : r.mois_relatif = months[k]))
               IN [segment_type |-> segment_name,
                   segment_value |-> segment_value,
                   cohorte |-> cohort,
                   mois_relatif |-> months[k],
                   clients_initiaux |-> initial_customers,
                   clients_actifs |-> active_customers,
                   taux_retention |->
                       RetentionRate(active_customers, initial_customers)]]

\* the missing value (NaN) of a column: of the frequency column, whose texts
\* are sequences of characters, and of the others
NoValueOf(column) == IF column = "frequence" THEN <<>> ELSE NoValue

\* segment_retention for one entry of segments: the values of the column in
\* order of appearance, the missing ones left out, and their cohorts
SegmentRetention(clean, segment) ==
    LET segment_name == segment[1]
        column == segment[2]
        values == SelectSeq(Unique([i \in 1..Len(clean) |-> clean[i][column]]),
                            LAMBDA v : v # NoValueOf(column))
        OfValue(segment_value) ==
            LET segment_data ==
                    SelectSeq(clean, LAMBDA r : r[column] = segment_value)
                cohorts == Unique([i \in 1..Len(segment_data) |->
                                     segment_data[i].date_debut_parcours])
            IN Concat([c \in 1..Len(cohorts) |->
                         SegmentCohortRetention(segment_data, segment_name,
                                                segment_value, cohorts[c])])
    IN Concat([v \in 1..Len(values) |-> OfValue(values[v])])

\* calculate_segmented_retention: the tables of the segment types one after
\* the other (the dictionary has no entry for a segment type without rows)
calculate_segmented_retention(frame) ==
    LET clean == MonthlyDfClean(frame)
    IN Concat([k \in 1..Len(segments) |-> SegmentRetention(clean, segments[k])])

-----------------------------------------------------------------------------
(* gemini/analyse_abo_court.py: create_monthly_report                      *)

\* the frequency column: the text of a cell is the sequence of its
\* characters; NoFrequence is a missing value (NaN), which an empty cell of
\* the file is read as
NoFrequence == <<>>

\* the characters that str.lower() changes among those of a file read with
\* encoding='latin1', as the scripts that lower the frequency read theirs
\* (the code points up to U+00FF): the letters A to Z, À to Ö and Ø to Þ;
\* and what it makes of them, one character each. A text cannot hold a
\* character beyond U+00FF there, of which str.lower() changes others
UpperCase ==
    <<"A", "B", "C", "D", "E", "F", "G", "H", "I", "J", "K", "L", "M",
      "N", "O", "P", "Q", "R", "S", "T", "U", "V", "W", "X", "Y", "Z",
      "À", "Á", "Â", "Ã", "Ä", "Å", "Æ", "Ç", "È", "É", "Ê", "Ë", "Ì",
      "Í", "Î", "Ï", "Ð", "Ñ", "Ò", "Ó", "Ô", "Õ", "Ö", "Ø", "Ù", "Ú",
      "Û", "Ü", "Ý", "Þ">>

LowerCase ==
    <<"a", "b", "c", "d", "e", "f", "g", "h", "i", "j", "k", "l", "m",
      "n", "o", "p", "q", "r", "s", "t", "u", "v", "w", "x", "y", "z",
      "à", "á", "â", "ã", "ä", "å", "æ", "ç", "è", "é", "ê", "ë", "ì",
      "í", "î", "ï", "ð", "ñ", "ò", "ó", "ô", "õ", "ö", "ø", "ù", "ú",
      "û", "ü", "ý", "þ">>

\* str.lower() on one character of such a file
LowerChar(c) ==
    IF \E k \in 1..Len(UpperCase) : UpperCase[k] = c
    THEN LowerCase[CHOOSE k \in 1..Len(UpperCase) : UpperCase[k] = c]
    ELSE c

\* Series.str.lower() on a value of the frequency column
StrLower(f) == [k \in 1..Len(f) |-> LowerChar(f[k])]

\* pat in text, Series.str.contains(pat): pat is a run of characters of text
StrContains(text, pat) ==
    \E k \in 0..(Len(text) - Len(pat)) :
        \A j \in 1..Len(pat) : text[k + j] = pat[j]

\* str(frequence): the text of a missing value is 'nan'
Str(f) == IF f = NoFrequence THEN <<"n", "a", "n">> ELSE f

\* the texts 'monthly' and 'annual' that the code looks for
monthly_text == <<"m", "o", "n", "t", "h", "l", "y">>

annual_text == <<"a", "n", "n", "u", "a", "l">>

\* frequency texts of the files
Monthly == <<"M", "o", "n", "t", "h", "l", "y">>

MONTHLY == <<"M", "O", "N", "T", "H", "L", "Y">>

BiMonthly == <<"b", "i", "-", "M", "o", "n", "t", "h", "l", "y">>

Annual == <<"A", "n", "n", "u", "a", "l">>

ANNUAL == <<"A", "N", "N", "U", "A", "L">>

SemiAnnual == <<"s", "e", "m", "i", "-", "a", "n", "n", "u", "a", "l">>

weekly == <<"w", "e", "e", "k", "l", "y">>

\* Series.str.lower().str.contains('monthly', na=False)
ContainsMonthly(f) ==
    IF f = NoFrequence THEN FALSE ELSE StrContains(StrLower(f), monthly_text)

\* df['frequence'].str: a column read from a file in which it is empty on
\* every row holds numbers (NaN), not text, and has no .str accessor; the
\* call raises AttributeError
HasStrAccessor(frame) ==
    frame = <<>> \/ \E i \in 1..Len(frame) : frame[i].frequence # NoFrequence

\* the grace period in days of a subscription
seuil_churn_jours(f) == IF ContainsMonthly(f) THEN 35 ELSE 90

\* a missing number (NaN) and a number of days
NaN == [na |-> TRUE, days |-> 0]

Days(n) == [na |-> FALSE, days |-> n]

\* pd.to_datetime(column, errors='coerce') on one cell
to_datetime(cell) == IF cell = Unparseable THEN NaT ELSE cell

\* pd.to_datetime(df_sub[...], errors='coerce') on the two date columns
DatesCoerced(frame) ==
    [i \in 1..Len(frame) |->
        [frame[i] EXCEPT !.order_date = to_datetime(@),
                         !.echeance_date = to_datetime(@)]]

\* agg 'first' and 'last' of a column within a group: the first and the
\* last cell that is not empty, an empty cell when there is none
AggFirst(cells, empty) ==
    LET full == SelectSeq(cells, LAMBDA c : c # empty)
    IN IF full = <<>> THEN empty ELSE full[1]

AggLast(cells, empty) ==
    LET full == SelectSeq(cells, LAMBDA c : c # empty)
    IN IF full = <<>> THEN empty ELSE full[Len(full)]

\* df_merged.drop_duplicates(): a row equal to an earlier one in every
\* column is dropped
drop_duplicates(frame) == DropDuplicates(frame, frame)

\* df.groupby('subscription_id').agg(agg_logic) for one subscription_id of
\* a table of transactions: of every column the first cell that is not
\* empty, of ECHEANCE_date the last one when agg_logic says 'last'
SubscriptionRow(frame, id, echeance) ==
    LET group == SelectSeq(frame, LAMBDA row : row.subscription_id = id)
        n == Len(group)
    IN [customer_id |->
            AggFirst([i \in 1..n |-> group[i].customer_id], NoCustomer),
        subscription_id |-> id,
        order_date |-> AggFirst([i \in 1..n |-> group[i].order_date], NaT),
        echeance_date |->
            IF echeance = "last"
            THEN AggLast([i \in 1..n |-> group[i].echeance_date], NaT)
            ELSE AggFirst([i \in 1..n |-> group[i].echeance_date], NaT),
        frequence |->
            AggFirst([i \in 1..n |-> group[i].frequence], NoFrequence),
        psp |-> AggFirst([i \in 1..n |-> group[i].psp], NoValue),
        tm_source |-> AggFirst([i \in 1..n |-> group[i].tm_source], NoValue),
        tm_medium |-> AggFirst([i \in 1..n |-> group[i].tm_medium], NoValue),
        consolidated_revenues_ht_euro |->
            AggFirst([i \in 1..n |-> group[i].consolidated_revenues_ht_euro],
                     NoRevenue)]

\* the groups of groupby('subscription_id'): the subscription_ids in
\* ascending order; the rows without one belong to no group
SubscriptionIds(frame) ==
    SortedInts({frame[i].subscription_id : i \in 1..Len(frame)}
                   \ {NoSubscription})

\* group_by_subscription of gemini/analyse_abo_court.py and of
\* gemini/pipeline_JA.py: one row per subscription_id, 'last' for
\* ECHEANCE_date and 'first' for every other column
group_by_subscription(frame) ==
    LET ids == SubscriptionIds(frame)
    IN [k \in 1..Len(ids) |-> SubscriptionRow(frame, ids[k], "last")]

\* groupby('customer_id')['ECHEANCE_date'].shift(1) at row i of a sorted
\* frame; groupby leaves out the rows without customer_id, which get NaT
echeance_precedente(frame, i) ==
    IF /\ i > 1
       /\ frame[i].customer_id # NoCustomer
       /\ frame[i - 1].customer_id = frame[i].customer_id
    THEN frame[i - 1].echeance_date
    ELSE NaT

\* (order_date - echeance_precedente).dt.days at row i
duree_trou_jours(frame, i) ==
    IF isna(frame[i].order_date) \/ isna(echeance_precedente(frame, i))
    THEN NaN
    ELSE Days(DaysBetween(frame[i].order_date, echeance_precedente(frame, i)))

\* duree_trou_jours.isna() | (duree_trou_jours >= seuil_churn_jours)
nouveau_parcours(frame, i) ==
    LET gap == duree_trou_jours(frame, i)
    IN gap.na \/ gap.days >= seuil_churn_jours(frame[i].frequence)

\* nouveau_parcours.cumsum() at row i: the flags are counted over the whole
\* frame, not per customer
CumSum(frame, i) ==
    Cardinality({j \in 1..i : nouveau_parcours(frame, j)})

\* id_parcours as the journey's number within its customer alone, without
\* the customer_id in front (the parcours_numero of gemini/pipeline_JA.py)
id_parcoursNumero(frame, i) ==
    <<0, Cardinality({j \in 1..i : /\ frame[j].customer_id = frame[i].customer_id
                                    /\ nouveau_parcours(frame, j)})>>

\* customer_id.astype(str) + '_' + cumsum.astype(str), as the pair of the two
id_parcours(frame, i) == <<frame[i].customer_id, CumSum(frame, i)>>

\* the first part of create_monthly_report: the subscriptions sorted by
\* customer and start date, with their journey and its start date
JourneySegmentation(df_sub) ==
    LET s == SortByCustomerThenOrderDate(DatesCoerced(df_sub))
        ids == [i \in 1..Len(s) |-> id_parcours(s, i)]
        start(i) ==
            LET members == SelectSeq([j \in 1..Len(s) |-> j],
                                     LAMBDA j : ids[j] = ids[i])
            IN MinDate([k \in 1..Len(members) |-> s[members[k]].order_date])
    IN [i \in 1..Len(s) |->
          [customer_id |-> s[i].customer_id,
           subscription_id |-> s[i].subscription_id,
           order_date |-> s[i].order_date,
           echeance_date |-> s[i].echeance_date,
           frequence |-> s[i].frequence,
           psp |-> s[i].psp,
           consolidated_revenues_ht_euro |-> s[i].consolidated_revenues_ht_euro,
           echeance_precedente |-> echeance_precedente(s, i),
           duree_trou_jours |-> duree_trou_jours(s, i),
           nouveau_parcours |-> nouveau_parcours(s, i),
           id_parcours |-> ids[i],
           journey_start_date |-> start(i)]]

\* t plus k months, for a first-of-month t
AddMonths(t, k) ==
    LET n == t.y * 12 + (t.m - 1) + k
    IN [y |-> n \div 12, m |-> (n % 12) + 1, d |-> 1]

\* pd.date_range(start=start_month, end=end_month, freq='MS') for two
\* first-of-month timestamps: empty when end_month is before start_month
date_range(start_month, end_month) ==
    LET n == MonthsDiff(end_month, start_month) + 1
    IN IF n <= 0 THEN <<>> ELSE [k \in 1..n |-> AddMonths(start_month, k - 1)]

\* a revenue cell whose text is not a number
UnparseableRevenue == -2

\* 'annual' in str(frequence).lower()
ContainsAnnual(f) == StrContains(StrLower(Str(f)), annual_text)

\* 'monthly' in str(frequence).lower()
InMonthly(f) == StrContains(StrLower(Str(f)), monthly_text)

\* an amount in twelfths of a euro, and the amount that is not a number
Twelfths(n) == [nan |-> FALSE, twelfths |-> n]

NaNAmount == [nan |-> TRUE, twelfths |-> 0]

\* montant_mensuel: float() raises ValueError on a text that is not a number
\* and the amount stays 0; an empty cell is NaN, str gives 'nan' and float
\* gives NaN, which the division and the assignment hand on
montant_mensuel(f, revenue) ==
    IF revenue = UnparseableRevenue THEN Twelfths(0)
    ELSE IF ContainsAnnual(f)
         THEN IF revenue = NoRevenue THEN NaNAmount ELSE Twelfths(revenue)
    ELSE IF InMonthly(f)
         THEN IF revenue = NoRevenue THEN NaNAmount ELSE Twelfths(12 * revenue)
    ELSE Twelfths(0)

\* the rows appended to all_months_data for one row of df_sorted
ReportRows(row) ==
    IF isna(row.order_date) \/ isna(row.echeance_date) THEN <<>>
    ELSE LET start_month == FirstOfMonth(row.order_date)
             end_month == FirstOfMonth(row.echeance_date)
             months == date_range(start_month, end_month)
         IN [k \in 1..Len(months) |->
               [customer_id |-> row.customer_id,
                subscription_id |-> row.subscription_id,
                id_parcours |-> row.id_parcours,
                journey_start_date |-> row.journey_start_date,
                month |-> months[k],
                month_relatif |->
                    MonthsDiff(months[k], row.journey_start_date),
                Montant |-> montant_mensuel(row.frequence,
                                            row.consolidated_revenues_ht_euro)]]

\* create_monthly_report: one row per subscription and month, no row dropped
create_monthly_report(sorted) ==
    Concat([i \in 1..Len(sorted) |-> ReportRows(sorted[i])])


\* analyze_churn_characteristics:
\* df.groupby('id_parcours')['month_relatif'].transform('max') at row i
duree_parcours(frame, i) ==
    LET same == {j \in 1..Len(frame) : frame[j].id_parcours = frame[i].id_parcours}
    IN CHOOSE d \in {frame[j].month_relatif : j \in same} :
           \A j \in same : frame[j].month_relatif <= d

\* df[df['duree_parcours'] <= 2]
df_churners_of(frame) ==
    LET kept == SelectSeq([i \in 1..Len(frame) |-> i],
                          LAMBDA i : duree_parcours(frame, i) <= 2)
    IN [k \in 1..Len(kept) |-> frame[kept[k]]]

\* df[df['duree_parcours'] > 2]
df_retained_of(frame) ==
    LET kept == SelectSeq([i \in 1..Len(frame) |-> i],
                          LAMBDA i : duree_parcours(frame, i) > 2)
    IN [k \in 1..Len(kept) |-> frame[kept[k]]]

\* frame['customer_id'].nunique(): the customers counted, NaN left out
customers_counted(frame) ==
    {frame[i].customer_id : i \in 1..Len(frame)} \ {NoCustomer}

\* rapport_final.create_monthly_report: the same rows, without an amount
create_monthly_reportRF(sorted) ==
    LET rows == create_monthly_report(sorted)
    IN [i \in 1..Len(rows) |->
          [customer_id |-> rows[i].customer_id,
           subscription_id |-> rows[i].subscription_id,
           id_parcours |-> rows[i].id_parcours,
           journey_start_date |-> rows[i].journey_start_date,
           month |-> rows[i].month,
           month_relatif |-> rows[i].month_relatif]]

-----------------------------------------------------------------------------
(* gemini/pipeline_JA.py: create_monthly_report                            *)

\* duree_trou_jours.isna() | (duree_trou_jours >= 90)
nouveau_parcoursJA(frame, i) ==
    LET gap == duree_trou_jours(frame, i)
    IN gap.na \/ gap.days >= 90

\* the number that is missing (NaN) in parcours_numero
NoNumero == -1

\* groupby('customer_id')['nouveau_parcours'].cumsum() at row i; groupby
\* leaves out the rows without customer_id, whose number is missing
parcours_numero(frame, i) ==
    IF frame[i].customer_id = NoCustomer THEN NoNumero
    ELSE Cardinality({j \in 1..i :
                         /\ frame[j].customer_id = frame[i].customer_id
                         /\ nouveau_parcoursJA(frame, j)})

\* the first part of pipeline_JA.create_monthly_report: the subscriptions
\* sorted by customer and start date, with the number of their journey
JourneySegmentationJA(df_sub) ==
    LET s == SortByCustomerThenOrderDate(DatesCoerced(df_sub))
    IN [i \in 1..Len(s) |->
          [customer_id |-> s[i].customer_id,
           subscription_id |-> s[i].subscription_id,
           order_date |-> s[i].order_date,
           echeance_date |-> s[i].echeance_date,
           frequence |-> s[i].frequence,
           psp |-> s[i].psp,
           consolidated_revenues_ht_euro |-> s[i].consolidated_revenues_ht_euro,
           echeance_precedente |-> echeance_precedente(s, i),
           duree_trou_jours |-> duree_trou_jours(s, i),
           nouveau_parcours |-> nouveau_parcoursJA(s, i),
           parcours_numero |-> parcours_numero(s, i)]]

\* pd.date_range(start, end, freq='MS') for any two timestamps: the firsts
\* of month from start to end, both included
date_range_MS(start, end) ==
    LET first == IF start.d = 1 THEN start ELSE NextMonth(FirstOfMonth(start))
        n == MonthsDiff(FirstOfMonth(end), first) + 1
    IN IF n <= 0 THEN <<>> ELSE [k \in 1..n |-> AddMonths(first, k - 1)]

\* the months of a row: date_range, replaced by the month of the start date
\* when it is empty
MonthsOfRow(row) ==
    LET months == date_range_MS(row.order_date, row.echeance_date)
    IN IF months = <<>> /\ ~isna(row.order_date)
       THEN <<FirstOfMonth(row.order_date)>>
       ELSE months

\* the rows appended to all_months_data for one row of df_sorted
ReportRowsJA(row) ==
    IF isna(row.order_date) \/ isna(row.echeance_date) THEN <<>>
    ELSE LET months == MonthsOfRow(row)
         IN [k \in 1..Len(months) |->
               [customer_id |-> row.customer_id,
                subscription_id |-> row.subscription_id,
                month |-> months[k],
                month_relatif |-> MonthsDiff(months[k], row.order_date),
                is_first_subscription |-> row.parcours_numero = 1,
                offer_date |-> row.order_date,
                date_fin_abo |-> row.echeance_date,
                frequence |-> row.frequence]]

\* pipeline_JA.create_monthly_report
create_monthly_reportJA(df_sub) ==
    LET sorted == JourneySegmentationJA(df_sub)
    IN Concat([i \in 1..Len(sorted) |-> ReportRowsJA(sorted[i])])

-----------------------------------------------------------------------------
(* gemini/lancer_analyse.py and gemini/rapport_final.py:                   *)
(* group_and_repair_data                                                   *)
(*                                                                         *)
(* A row of the merged file holds its two dates as text (a date, NaT when  *)
(* the cell is empty, Unparseable when it holds something else) and as     *)
(* three numbers each (<<year, month, day>>, 0 for an empty cell).         *)

\* an empty cell of a year, month or day column (NaN)
NoPart == 0

\* pd.to_datetime(df[['year', 'month', 'day']], errors='coerce') on one row
to_datetime_parts(parts) ==
    IF /\ parts[1] # NoPart
       /\ parts[2] \in 1..12
       /\ parts[3] \in 1..DaysInMonth(parts[1], parts[2])
    THEN Date(parts[1], parts[2], parts[3])
    ELSE NaT

\* t + pd.Timedelta(days=n)
RECURSIVE AddDays(_, _)
AddDays(t, n) ==
    IF t.d + n <= DaysInMonth(t.y, t.m) THEN Date(t.y, t.m, t.d + n)
    ELSE AddDays(NextMonth(FirstOfMonth(t)),
                 n - (DaysInMonth(t.y, t.m) - t.d + 1))

\* the column of one part of a date, over the rows of a group
PartColumn(group, k, column) ==
    IF column = "order" THEN [i \in 1..Len(group) |-> group[i].order_parts[k]]
    ELSE [i \in 1..Len(group) |-> group[i].echeance_parts[k]]

\* df.groupby('subscription_id').agg(agg_logic) for one subscription_id
GroupRow(frame, id) ==
    LET group == SelectSeq(frame, LAMBDA row : row.subscription_id = id)
    IN [subscription_id |-> id,
        customer_id |->
            AggFirst([i \in 1..Len(group) |-> group[i].customer_id], NoCustomer),
        order_date |->
            AggFirst([i \in 1..Len(group) |-> group[i].order_date], NaT),
        echeance_date |->
            AggLast([i \in 1..Len(group) |-> group[i].echeance_date], NaT),
        order_parts |->
            [k \in 1..3 |-> AggFirst(PartColumn(group, k, "order"), NoPart)],
        echeance_parts |->
            [k \in 1..3 |-> AggFirst(PartColumn(group, k, "echeance"), NoPart)],
        frequence |->
            AggFirst([i \in 1..Len(group) |-> group[i].frequence], NoFrequence),
        psp |-> AggFirst([i \in 1..Len(group) |-> group[i].psp], NoValue),
        consolidated_revenues_ht_euro |->
            AggFirst([i \in 1..Len(group) |->
                        group[i].consolidated_revenues_ht_euro], NoRevenue)]

\* df.groupby('subscription_id').agg(agg_logic).reset_index(): one row per
\* subscription_id in ascending order; the rows without one are left out
GroupBySubscription(frame) ==
    LET ids == SortedInts({frame[i].subscription_id : i \in 1..Len(frame)}
                              \ {NoSubscription})
    IN [k \in 1..Len(ids) |-> GroupRow(frame, ids[k])]

\* phases 1 and 2 for the start date: the text parsed, or else the date
\* rebuilt from its three numbers
order_date_dt(g) ==
    IF isna(to_datetime(g.order_date)) THEN to_datetime_parts(g.order_parts)
    ELSE to_datetime(g.order_date)

\* phases 1 and 2 for the due date
ECHEANCE_date_rebuilt(g) ==
    IF isna(to_datetime(g.echeance_date))
    THEN to_datetime_parts(g.echeance_parts)
    ELSE to_datetime(g.echeance_date)

\* condition_fix_echeance without its test on the frequency
condition_fix_echeanceAnyFrequence(g) ==
    /\ isna(ECHEANCE_date_rebuilt(g))
    /\ ~isna(order_date_dt(g))

\* condition_fix_echeance
condition_fix_echeance(g) ==
    /\ ContainsMonthly(g.frequence)
    /\ isna(ECHEANCE_date_rebuilt(g))
    /\ ~isna(order_date_dt(g))

\* phase 3: the due date, imputed 30 days after the start date when the
\* condition holds
ECHEANCE_date_dt(g) ==
    IF condition_fix_echeance(g) THEN AddDays(order_date_dt(g), 30)
    ELSE ECHEANCE_date_rebuilt(g)

\* methode_reparation_date without the assignment of phase 3
methode_reparation_dateNoImputation(g) ==
    IF isna(to_datetime(g.order_date)) \/ isna(to_datetime(g.echeance_date))
    THEN "Reconstruite"
    ELSE "Originale"

\* methode_reparation_date: 'Originale' by default; 'Reconstruite' on every
\* row handed to a reconstruction, whether it gave a date or not (the index
\* of reconstructed_dates.notna() is the index of all those rows);
\* 'Imputee (+30j)', written without its accent, on the rows of phase 3
methode_reparation_date(g) ==
    IF condition_fix_echeance(g) THEN "Imputee (+30j)"
    ELSE IF isna(to_datetime(g.order_date))
            \/ isna(to_datetime(g.echeance_date))
         THEN "Reconstruite"
         ELSE "Originale"

\* df_grouped of lancer_analyse.py before its dropna
RepairedRow(g) ==
    [subscription_id |-> g.subscription_id,
     customer_id |-> g.customer_id,
     order_date |-> order_date_dt(g),
     echeance_date |-> ECHEANCE_date_dt(g),
     frequence |-> g.frequence,
     psp |-> g.psp,
     consolidated_revenues_ht_euro |-> g.consolidated_revenues_ht_euro,
     methode_reparation_date |-> methode_reparation_date(g)]

Repaired(frame) ==
    LET grouped == GroupBySubscription(frame)
    IN [k \in 1..Len(grouped) |-> RepairedRow(grouped[k])]

\* dropna(subset=['order_date', 'ECHEANCE_date'])
DropNaDates(frame) ==
    SelectSeq(frame, LAMBDA row : /\ ~isna(row.order_date)
                                  /\ ~isna(row.echeance_date))

\* lancer_analyse.group_and_repair_data
group_and_repair_data(frame) == DropNaDates(Repaired(frame))

\* initial_rows - len(df_grouped), the number it prints
dropped_rows(frame) ==
    Len(Repaired(frame)) - Len(group_and_repair_data(frame))

\* rapport_final.group_and_repair_data: the same three phases, without the
\* column methode_reparation_date
group_and_repair_dataRF(frame) ==
    LET kept == group_and_repair_data(frame)
    IN [k \in 1..Len(kept) |->
          [subscription_id |-> kept[k].subscription_id,
           customer_id |-> kept[k].customer_id,
           order_date |-> kept[k].order_date,
           echeance_date |-> kept[k].echeance_date,
           frequence |-> kept[k].frequence,
           psp |-> kept[k].psp,
           consolidated_revenues_ht_euro |->
               kept[k].consolidated_revenues_ht_euro]]

-----------------------------------------------------------------------------
(* recherche_upgrade.py                                                    *)
(*                                                                         *)
(* The name of a column is the pair of a name of the file and of what is   *)
(* written after it: <<"psp", "_precedent">> is 'psp_precedent'.           *)

Column(name) == <<name, "">>

\* f'{col}_precedent'
Precedent(name) == <<name, "_precedent">>

\* the columns of a complete file, and those the script can do without
FileColumns == {"customer_id", "subscription_id", "order_date", "frequence",
                "consolidated_revenues_ht_euro", "discount", "psp",
                "payment_origin", "tm_source", "tm_medium", "tm_campaign"}

OptionalColumns == {"frequence", "psp", "payment_origin", "tm_source",
                    "tm_medium"}

\* load_and_prepare_data: the columns of df_grouped, 'nom_offre' added
PreparedColumns(columns) ==
    {Column(c) : c \in columns} \cup {Column("nom_offre")}

\* pd.to_numeric(column.astype(str).str.replace(',', '.'), errors='coerce')
\* on one cell: a text that is no number becomes NaN
to_numeric(revenue) ==
    IF revenue = UnparseableRevenue THEN NoRevenue ELSE revenue

\* load_and_prepare_data: the repeated rows are dropped, the rows of a
\* subscription are made one row ('first' for every column, in ascending
\* order of subscription_id), the dates and the revenues are converted and
\* the rows without customer_id, order_date or revenue are dropped
load_and_prepare_data(frame) ==
    LET df_cleaned == drop_duplicates(frame)
        ids == SubscriptionIds(df_cleaned)
        df_grouped_ ==
            [k \in 1..Len(ids) |->
                [SubscriptionRow(df_cleaned, ids[k], "first") EXCEPT
                    !.order_date = to_datetime(@),
                    !.consolidated_revenues_ht_euro = to_numeric(@)]]
    IN SelectSeq(df_grouped_, LAMBDA row :
           /\ row.customer_id # NoCustomer
           /\ ~isna(row.order_date)
           /\ row.consolidated_revenues_ht_euro # NoRevenue)

cols_to_shift == {"consolidated_revenues_ht_euro", "nom_offre", "frequence",
                  "subscription_id", "discount", "psp", "payment_origin",
                  "tm_source", "tm_medium", "tm_campaign"}

\* the columns of df_sorted after the loop over cols_to_shift
ShiftedColumns(columns) ==
    columns \cup {Precedent(c) : c \in {d \in cols_to_shift : Column(d) \in columns}}

\* groupby('customer_id')[col].shift(1) at row i of the sorted frame: the
\* index of the row before it of the same customer, 0 when there is none
shift_1(frame, i) ==
    IF i > 1 /\ frame[i - 1].customer_id = frame[i].customer_id
    THEN i - 1 ELSE 0

\* find_revenue_upgrades with >= in the place of >
find_revenue_upgradesOrEqual(frame) ==
    LET df_sorted_ == SortByCustomerThenOrderDate(frame)
        rows == [i \in 1..Len(df_sorted_) |->
                   [customer_id |-> df_sorted_[i].customer_id,
                    subscription_id |-> df_sorted_[i].subscription_id,
                    order_date |-> df_sorted_[i].order_date,
                    consolidated_revenues_ht_euro |->
                        df_sorted_[i].consolidated_revenues_ht_euro,
                    previous |-> shift_1(df_sorted_, i)]]
        upgrade(row) ==
            /\ row.previous # 0
            /\ row.consolidated_revenues_ht_euro
                   >= df_sorted_[row.previous].consolidated_revenues_ht_euro
        kept == SelectSeq(rows, upgrade)
    IN [k \in 1..Len(kept) |->
          [customer_id |-> kept[k].customer_id,
           subscription_id |-> kept[k].subscription_id,
           order_date |-> kept[k].order_date,
           consolidated_revenues_ht_euro |->
               kept[k].consolidated_revenues_ht_euro,
           subscription_id_precedent |->
               df_sorted_[kept[k].previous].subscription_id,
           consolidated_revenues_ht_euro_precedent |->
               df_sorted_[kept[k].previous].consolidated_revenues_ht_euro]]

\* find_revenue_upgrades: the rows of the sorted frame whose revenue is
\* greater than the shifted revenue (a comparison with NaN is False)
find_revenue_upgrades(frame) ==
    LET df_sorted_ == SortByCustomerThenOrderDate(frame)
        rows == [i \in 1..Len(df_sorted_) |->
                   [customer_id |-> df_sorted_[i].customer_id,
                    subscription_id |-> df_sorted_[i].subscription_id,
                    order_date |-> df_sorted_[i].order_date,
                    consolidated_revenues_ht_euro |->
                        df_sorted_[i].consolidated_revenues_ht_euro,
                    previous |-> shift_1(df_sorted_, i)]]
        upgrade(row) ==
            /\ row.previous # 0
            /\ row.consolidated_revenues_ht_euro
                   > df_sorted_[row.previous].consolidated_revenues_ht_euro
        kept == SelectSeq(rows, upgrade)
    IN [k \in 1..Len(kept) |->
          [customer_id |-> kept[k].customer_id,
           subscription_id |-> kept[k].subscription_id,
           order_date |-> kept[k].order_date,
           consolidated_revenues_ht_euro |->
               kept[k].consolidated_revenues_ht_euro,
           subscription_id_precedent |->
               df_sorted_[kept[k].previous].subscription_id,
           consolidated_revenues_ht_euro_precedent |->
               df_sorted_[kept[k].previous].consolidated_revenues_ht_euro]]

\* the keys of report_columns in recherche_upgrade.main
report_columns ==
    {Column("customer_id"), Column("order_date"),
     Precedent("subscription_id"), Precedent("nom_offre"),
     <<"frequence", "_precedente">>,
     Precedent("consolidated_revenues_ht_euro"), Precedent("discount"),
     Precedent("psp"), Precedent("payment_origin"), Precedent("tm_source"),
     Precedent("tm_medium"), Precedent("tm_campaign"),
     Column("subscription_id"), Column("nom_offre"), Column("frequence"),
     Column("consolidated_revenues_ht_euro"), Column("discount"),
     Column("psp"), Column("payment_origin"), Column("tm_source"),
     Column("tm_medium"), Column("tm_campaign")}

\* final_columns_to_select: the keys that are columns of df_revenue_upgrades
final_columns_to_select(columns) ==
    {c \in report_columns : c \in columns}

-----------------------------------------------------------------------------
(* gemini/creer_echantillion.py                                            *)

\* df['customer_id'].unique(): the values in the order of the file, NaN
\* counted as one value
unique_customers(frame) ==
    Unique([i \in 1..Len(frame) |-> frame[i].customer_id])

\* the natural number of the digits x
RECURSIVE Natural(_)
Natural(x) == IF x = <<>> THEN 0 ELSE Head(x) + Base * Natural(Tail(x))

\* int(x) of a double x that is not negative: what stands after the point
\* is cut off
int(x) ==
    Natural(IF x.e >= 0 THEN ShiftLeft(x.m, x.e)
            ELSE ShiftRight(x.m, 0 - x.e).quotient)

\* int(n_unique_customers * fraction), the fraction given in percent:
\* fraction is the double nearest to percent / 100 and the product is made
\* in double precision, so it can lie just below a whole number that
\* n_unique_customers * percent / 100 reaches (100 * 0.29 gives 28)
n_customers_to_sample(n_unique_customers, percent) ==
    IF n_unique_customers = 0 THEN 0
    ELSE int(ftimes(fdiv(double(percent), 100), n_unique_customers))

\* pd.Series(unique_customers).sample(n=...): the draws of n of the values
\* (the draw that random_state=42 makes is one of them)
Samples(values, n) ==
    {S \in SUBSET Range(values) : Cardinality(S) = n}

\* the filter of the source with the first row only of every customer drawn
isinFirstRow(frame, ids) ==
    SelectSeq(frame, LAMBDA row :
        /\ row.customer_id \in ids
        /\ \A i \in 1..Len(frame) :
               frame[i].customer_id = row.customer_id
                   => frame[i].subscription_id >= row.subscription_id)

\* df[df['customer_id'].isin(sampled_customer_ids)]; isin finds NaN in a
\* list that holds NaN
isin(frame, ids) ==
    SelectSeq(frame, LAMBDA row : row.customer_id \in ids)

-----------------------------------------------------------------------------
(* dashboard_retention.py                                                  *)
(*                                                                         *)
(* A sheet of segments is a sequence of rows [segment_value, cohorte,      *)
(* mois_relatif, clients_initiaux, clients_actifs], the cohort the pair of *)
(* its month and year. A retention value is None or a number of tenths of  *)
(* a percent.                                                              *)

\* the values of a segment, in the order groupby puts them in
SegmentValues == <<"annual", "daily", "monthly", "weekly">>

None == [none |-> TRUE, tenths |-> 0]

Tenths(n) == [none |-> FALSE, tenths |-> n]

\* max_months, the same for every filter
max_months == 25

\* cutoff_date of prepare_segment_evolution_data
cutoff_date(filter) ==
    IF filter = "2023-12" THEN Date(2023, 12, 1)
    ELSE IF filter = "2023-06" THEN Date(2023, 6, 1)
    ELSE IF filter = "2022-12" THEN Date(2022, 12, 1)
    ELSE IF filter = "2022-06" THEN Date(2022, 6, 1)
    ELSE Date(2099, 12, 1)

\* pd.to_datetime(segment_df['cohorte'], format='%m/%Y')
cohorte_date(cohorte) == Date(cohorte[2], cohorte[1], 1)

\* step 1: the rows of the cohorts up to the cutoff
filter_cohortes(sheet, filter) ==
    IF filter = "all" THEN sheet
    ELSE SelectSeq(sheet, LAMBDA row :
             DateLE(cohorte_date(row.cohorte), cutoff_date(filter)))

\* step 2: the rows with clients_initiaux > 0, clients_actifs >= 0 and
\* mois_relatif <= max_months
clean_rows(sheet) ==
    SelectSeq(sheet, LAMBDA row :
        /\ row.clients_initiaux > 0
        /\ row.clients_actifs >= 0
        /\ row.mois_relatif <= max_months)

\* the rows of a segment value at a month
rows_at(sheet, v, month) ==
    SelectSeq(sheet, LAMBDA row :
        row.segment_value = v /\ row.mois_relatif = month)

\* segment_sizes[v]: the sum of clients_initiaux at month 0
segment_size(sheet, v) ==
    LET rows == rows_at(sheet, v, 0)
    IN SumSeq([i \in 1..Len(rows) |-> rows[i].clients_initiaux])

\* segment_sizes.nlargest(3).index.tolist(): the three largest, the first
\* of the index among equal ones
nlargest_3(sheet) ==
    LET keys == {k \in 1..Len(SegmentValues) :
                    rows_at(sheet, SegmentValues[k], 0) # <<>>}
        size(k) == segment_size(sheet, SegmentValues[k])
        rank(k) == Cardinality({j \in keys :
                       \/ size(j) > size(k)
                       \/ size(j) = size(k) /\ j < k})
        top == {k \in keys : rank(k) < 3}
    IN [r \in 1..Cardinality(top) |->
          SegmentValues[CHOOSE k \in top : rank(k) = r - 1]]

\* round((total_active / total_initial) * 100, 1) in tenths of a percent:
\* the two sums are numpy integers and the rate a numpy float
rounded_rate(total_active, total_initial) ==
    LET n == total_active * 1000
        q == n \div total_initial
        r == n % total_initial
    IN IF 2 * r < total_initial THEN q
       ELSE IF 2 * r > total_initial THEN q + 1
       ELSE np_round_halfway(retention_rate(total_active, total_initial), q, 10)

\* the value of a segment at a month with the rate of month 0 computed as
\* that of the other months
retention_valueComputed(sheet, v, month) ==
    LET initial_data == rows_at(sheet, v, 0)
        month_data_seg == rows_at(sheet, v, month)
        total_initial ==
            SumSeq([i \in 1..Len(initial_data) |->
                       initial_data[i].clients_initiaux])
        total_active ==
            SumSeq([i \in 1..Len(month_data_seg) |->
                       month_data_seg[i].clients_actifs])
        rate == rounded_rate(total_active, total_initial)
    IN IF initial_data = <<>> THEN None
       ELSE IF month_data_seg = <<>> THEN None
       ELSE IF total_initial > 0
            THEN Tenths(IF rate > 1000 THEN 1000 ELSE rate)
       ELSE None

\* step 4: month_data[str(segment_value)] of a month, round(rate, 1) in
\* tenths of a percent
retention_value(sheet, v, month) ==
    LET initial_data == rows_at(sheet, v, 0)
        month_data_seg == rows_at(sheet, v, month)
        total_initial ==
            SumSeq([i \in 1..Len(initial_data) |->
                       initial_data[i].clients_initiaux])
        total_active ==
            SumSeq([i \in 1..Len(month_data_seg) |->
                       month_data_seg[i].clients_actifs])
        rate == rounded_rate(total_active, total_initial)
    IN IF initial_data = <<>> THEN None
       ELSE IF month_data_seg = <<>> THEN None
       ELSE IF total_initial > 0
            THEN IF month = 0 THEN Tenths(1000)
                 ELSE Tenths(IF rate > 1000 THEN 1000 ELSE rate)
       ELSE None

\* what prepare_segment_evolution_data returns when it gives up
NoEvolution == [evolution_data |-> <<>>, main_segments |-> <<>>]

\* prepare_segment_evolution_data: evolution_data[m + 1] is the month_data
\* of month m
prepare_segment_evolution_data(sheets, segment_type, filter) ==
    IF segment_type \notin DOMAIN sheets THEN NoEvolution
    ELSE LET segment_df ==
                 clean_rows(filter_cohortes(sheets[segment_type], filter))
             main == nlargest_3(segment_df)
         IN IF main = <<>> THEN NoEvolution
            ELSE [evolution_data |->
                      [m \in 1..(max_months + 1) |->
                          [mois_relatif |-> m - 1,
                           values |->
                               [v \in Range(main) |->
                                   retention_value(segment_df, v, m - 1)]]],
                  main_segments |-> main]

\* create_segment_evolution_chart: the kind of figure and the segments that
\* have a curve, those with 3 valid points or more
create_segment_evolution_chart(evolution, main) ==
    IF evolution = <<>> \/ main = <<>>
    THEN [kind |-> "insufficient", traces |-> {}]
    ELSE [kind |-> "curves",
          traces |->
              {v \in Range(main) :
                  Cardinality({m \in 1..Len(evolution) :
                      /\ ~evolution[m].values[v].none
                      /\ evolution[m].values[v].tenths >= 0
                      /\ evolution[m].values[v].tenths <= 1000}) >= 3}]

\* update_segment_chart: the figure of the callback, and what
\* prepare_segment_evolution_data returned to it
update_segment_chart(sheets, segment, view, filter) ==
    IF segment = "global"
    THEN [figure |-> [kind |-> "select", traces |-> {}], called |-> FALSE,
          prepared |-> NoEvolution]
    ELSE LET prepared == prepare_segment_evolution_data(sheets, segment, filter)
         IN [figure |->
                 create_segment_evolution_chart(prepared.evolution_data,
                                                prepared.main_segments),
             called |-> TRUE,
             prepared |-> prepared]

-----------------------------------------------------------------------------
(* The input files                                                         *)

Customers == 1..NCust

\* start dates: one before a change of year, the other 90 and 35 days after
\* two of the due dates below
OrderDates == {Date(2022, 12, 20), Date(2023, 4, 14)}

\* due dates: before every start date, 90 days and 35 days before
\* 2023-04-14, and after every start date
EcheanceDates == {Date(2022, 11, 30), Date(2023, 1, 14), Date(2023, 3, 10),
                  Date(2023, 6, 1)}

\* every first and fifteenth day of three years, 2024 a leap year
WideDates == {Date(y, m, d) : y \in 2022..2024, m \in 1..12, d \in {1, 15}}

\* frequency, payment provider, acquisition source and medium (nan when
\* empty) and revenue in euros of the offers
OfferMonthly ==
    [frequence |-> monthly_text, psp |-> "paypal", tm_source |-> "google",
     tm_medium |-> "cpc", revenue |-> 10]

OfferAnnual ==
    [frequence |-> Annual, psp |-> "nan", tm_source |-> "newsletter",
     tm_medium |-> "nan", revenue |-> 99]

Offers == {OfferMonthly, OfferAnnual}

\* an offer whose frequency is missing
OfferNoFrequence ==
    [frequence |-> NoFrequence, psp |-> "stripe", tm_source |-> "nan",
     tm_medium |-> "cpc", revenue |-> 4]

\* the i-th row of a file
Transaction(i, c, o, e, offer) ==
    [customer_id |-> c,
     subscription_id |-> i,
     order_date |-> o,
     echeance_date |-> e,
     frequence |-> offer.frequence,
     psp |-> offer.psp,
     tm_source |-> offer.tm_source,
     tm_medium |-> offer.tm_medium,
     consolidated_revenues_ht_euro |-> offer.revenue]

\* the file whose i-th row is made of the i-th choice of customer, start
\* date, due date and offer
File(f) ==
    [i \in DOMAIN f |-> Transaction(i, f[i][1], f[i][2], f[i][3], f[i][4])]

-----------------------------------------------------------------------------
(* The two scripts. They share nothing but the input file; the gemini      *)
(* script is run when the other one has ended.                             *)

\* creer_echantillion.py has read nothing
IdleSample ==
    /\ fraction = 0
    /\ sampled_customer_ids = {}
    /\ df_sampled = <<>>
    /\ spc = "start"

\* analyze_churn_characteristics has not been called
IdleChurn ==
    /\ df_churners = <<>>
    /\ df_retained = <<>>
    /\ apc = "start"

\* the dashboard has loaded nothing
IdleDash ==
    /\ segments_data = <<>>
    /\ selected_segment = "none"
    /\ view_type = "none"
    /\ cohort_filter = "none"
    /\ evolution_data = <<>>
    /\ main_segments = <<>>
    /\ figure = [kind |-> "none", traces |-> {}]
    /\ callbacks = 0

\* none of the other steps of the pipelines has run
IdleRest ==
    /\ rf_df = <<>>
    /\ monthly_df_again = <<>>
    /\ significant_data = <<>>
    /\ avg_retention = <<>>
    /\ monthly_df_clean = <<>>
    /\ segmented_results = <<>>
    /\ jpc = "start"
    /\ ja_df = <<>>
    /\ lpc = "start"
    /\ df_grouped = <<>>
    /\ supprimes = 0
    /\ lancer_sorted = <<>>
    /\ lancer_df = <<>>
    /\ rpc = "start"
    /\ rf_grouped = <<>>

\* nothing of the other steps and scripts has run
IdleStepsButUpgrades ==
    /\ IdleChurn
    /\ IdleDash
    /\ IdleRest

\* recherche_upgrade.py has read nothing
IdleUpgrades ==
    /\ up_columns = {}
    /\ df_prepared = <<>>
    /\ df_upgrades = <<>>
    /\ final_report_columns = {}
    /\ upc = "start"

IdleSteps ==
    /\ IdleStepsButUpgrades
    /\ IdleUpgrades
    /\ IdleSample

\* no main is followed stage by stage
IdleMain ==
    /\ script = "none"
    /\ source = "none"
    /\ mpc = "start"
    /\ table = "unset"
    /\ ran = <<>>
    /\ written = FALSE

IdleOthersButRaw ==
    /\ IdleSteps
    /\ IdleMain

\* ... and no file has been read by the other gemini loaders
IdleOthers ==
    /\ IdleOthersButRaw
    /\ raw = <<>>

\* nothing of the five tables of the first two scripts either
IdleCore ==
    /\ pc = "start"
    /\ df_clean = <<>>
    /\ monthly_data = <<>>
    /\ monthly_df = <<>>
    /\ retention_df = <<>>
    /\ gpc = "start"
    /\ df_sorted = <<>>
    /\ final_df = <<>>

Idle ==
    /\ pc = "start"
    /\ df_clean = <<>>
    /\ monthly_data = <<>>
    /\ monthly_df = <<>>
    /\ retention_df = <<>>
    /\ gpc = "start"
    /\ df_sorted = <<>>
    /\ final_df = <<>>
    /\ IdleOthers

\* files of up to MaxTx complete rows
Init ==
    /\ \E n \in 1..MaxTx :
          \E f \in [1..n -> Customers \X OrderDates \X EcheanceDates \X Offers] :
              df = File(f)
    /\ Idle

\* files of up to MaxMissing rows of one customer in which a date or the
\* frequency may be missing
InitMissing ==
    /\ \E n \in 1..MaxMissing :
          \E f \in [1..n -> {1} \X (OrderDates \cup {NaT})
                              \X {Date(2023, 1, 14), Date(2023, 3, 10), NaT}
                              \X {OfferMonthly, OfferNoFrequence}] :
              df = File(f)
    /\ Idle

\* files of one row, over three years of dates
InitOne ==
    /\ \E o \in WideDates, e \in WideDates :
          df = <<Transaction(1, 1, o, e, OfferMonthly)>>
    /\ Idle

\* the rows of the monthly tables given to calculate_cohort_retention alone:
\* a customer, one of two cohorts and a relative month
TableRow(c, cohort, rel) ==
    [customer_id |-> c,
     subscription_id |-> c,
     mois |-> StrfMonth(AddMonths(cohort, rel)),
     mois_relatif |-> rel,
     date_debut_parcours |-> StrfMonth(cohort),
     frequence |-> OfferMonthly.frequence,
     psp |-> OfferMonthly.psp,
     tm_source |-> OfferMonthly.tm_source,
     tm_medium |-> OfferMonthly.tm_medium,
     consolidated_revenues_ht_euro |-> OfferMonthly.revenue]

\* any monthly table of up to MaxTable such rows
InitRetention ==
    /\ df = <<>>
    /\ pc = "monthly"
    /\ df_clean = <<>>
    /\ monthly_data = <<>>
    /\ \E n \in 1..MaxTable :
          \E f \in [1..n -> Customers \X {Date(2022, 12, 1), Date(2023, 1, 1)}
                              \X (0..MaxRel)] :
              monthly_df = [i \in 1..n |-> TableRow(f[i][1], f[i][2], f[i][3])]
    /\ retention_df = <<>>
    /\ gpc = "start"
    /\ df_sorted = <<>>
    /\ final_df = <<>>
    /\ IdleOthers

\* The files of many customers: every customer follows one of four
\* histories, each a list of <<start date, due date, offer>>. The revenue of
\* the first history's offer is chosen with the file.
Histories(revenue) ==
    << \* three months of a monthly offer
       << <<Date(2022, 12, 20), Date(2023, 2, 14),
            [OfferMonthly EXCEPT !.revenue = revenue]>> >>,
       \* a month of the annual offer, then a month of the monthly one
       << <<Date(2022, 12, 20), Date(2022, 12, 25), OfferAnnual>>,
          <<Date(2023, 1, 10), Date(2023, 1, 14), OfferMonthly>> >>,
       \* a transaction due before it starts, then three months
       << <<Date(2022, 12, 20), Date(2022, 11, 30), OfferMonthly>>,
          <<Date(2023, 4, 14), Date(2023, 6, 1), OfferMonthly>> >>,
       \* one month, four months later than the others
       << <<Date(2023, 4, 14), Date(2023, 4, 20), OfferNoFrequence>> >> >>

\* the revenues tried: none, and the values at and around the limits of the
\* revenue bands
Revenues == {NoRevenue, 0, 4, 5, 6, 10, 15, 20, 21}

\* the numbers of customers tried for each history, at and around the two
\* significance thresholds
CrowdSizes ==
    << {0, 1, SignificantSegment - 1, SignificantSegment,
        SignificantCohort - SignificantSegment - 1,
        SignificantCohort - SignificantSegment},
       {0, 1, SignificantSegment},
       {0, 1},
       {0, SignificantSegment - 1, SignificantSegment} >>

\* the file of counts[h] customers of history h, for every h: customers are
\* numbered in the order of the histories, subscriptions in file order
CrowdFile(counts, revenue) ==
    LET histories == Histories(revenue)
        upto(h) == SumSeq(SubSeq(counts, 1, h))
        total == upto(Len(counts))
        history(c) == CHOOSE h \in 1..Len(counts) : upto(h - 1) < c /\ c <= upto(h)
        rows == Concat([c \in 1..total |->
                    [j \in 1..Len(histories[history(c)]) |->
                        <<c, histories[history(c)][j]>>]])
    IN [i \in 1..Len(rows) |->
          Transaction(i, rows[i][1], rows[i][2][1], rows[i][2][2], rows[i][2][3])]

InitCrowd ==
    /\ \E counts \in CrowdSizes[1] \X CrowdSizes[2] \X CrowdSizes[3] \X CrowdSizes[4] :
          \E revenue \in Revenues :
              /\ SumSeq(counts) > 0
              /\ df = CrowdFile(counts, revenue)
    /\ Idle

\* Claude_retention_analysis.main, step 1. The period printed at the end of
\* load_and_clean_data raises on an empty frame, and main gives up.
LoadAndCleanData ==
    /\ pc = "start"
    /\ df_clean' = load_and_clean_data(df)
    /\ pc' = IF df_clean' = <<>> THEN "error" ELSE "loaded"
    /\ UNCHANGED <<df, monthly_data, monthly_df, retention_df,
                   gpc, df_sorted, final_df>>
    /\ UNCHANGED others

\* Claude_retention_analysis.main, step 2. drop_duplicates raises on a frame
\* without rows (it has no columns), and main gives up.
CreateMonthlyRetentionTable ==
    /\ pc = "loaded"
    /\ monthly_data' = MonthlyData(df_clean)
    /\ monthly_df' = create_monthly_retention_table(df_clean)
    /\ pc' = IF monthly_data' = <<>> THEN "error" ELSE "monthly"
    /\ UNCHANGED <<df, df_clean, retention_df, gpc, df_sorted, final_df>>
    /\ UNCHANGED others

\* Claude_retention_analysis.main, step 3. sort_values raises on a frame
\* without rows, and main gives up.
CalculateCohortRetention ==
    /\ pc = "monthly"
    /\ retention_df' = calculate_cohort_retention(monthly_df)
    /\ pc' = IF retention_df' = <<>> THEN "error" ELSE "retention"
    /\ UNCHANGED <<df, df_clean, monthly_data, monthly_df,
                   gpc, df_sorted, final_df>>
    /\ UNCHANGED others

\* gemini/analyse_abo_court.main on the same file: load_and_merge_data drops
\* the repeated rows, group_by_subscription makes one row of the rows of a
\* subscription, create_monthly_report segments and expands them
CreateMonthlyReport ==
    /\ gpc = "start"
    /\ pc \in {"retention", "error"}
    /\ IF HasStrAccessor(df)
       THEN /\ df_sorted' = JourneySegmentation(
                              group_by_subscription(drop_duplicates(df)))
            /\ final_df' = create_monthly_report(df_sorted')
            /\ gpc' = "report"
       ELSE /\ df_sorted' = <<>>
            /\ final_df' = <<>>
            /\ gpc' = "error"
    /\ UNCHANGED <<df, pc, df_clean, monthly_data, monthly_df, retention_df>>
    /\ UNCHANGED others

\* Claude_retention_analysis.main, step 4
AnalyzeRetentionTrends ==
    /\ pc = "retention"
    /\ significant_data' = significant_data_of(retention_df)
    /\ avg_retention' = avg_retention_of(significant_data')
    /\ pc' = "trends"
    /\ UNCHANGED core_data
    /\ UNCHANGED <<gpc, df_sorted, final_df, monthly_df_clean, segmented_results>>
    /\ UNCHANGED gemini_others

\* Claude_retention_analysis.main, step 6 (step 5, create_cohort_summary,
\* reads retention_df and changes nothing)
CalculateSegmentedRetention ==
    /\ pc = "trends"
    /\ monthly_df_clean' = MonthlyDfClean(monthly_df)
    /\ segmented_results' = calculate_segmented_retention(monthly_df)
    /\ pc' = "segmented"
    /\ UNCHANGED core_data
    /\ UNCHANGED <<gpc, df_sorted, final_df, significant_data, avg_retention>>
    /\ UNCHANGED gemini_others

\* a row of the merged file of lancer_analyse.py and rapport_final.py
RawRow(c, id, o, op, e, ep, f) ==
    [customer_id |-> c,
     subscription_id |-> id,
     order_date |-> o,
     order_parts |-> op,
     echeance_date |-> e,
     echeance_parts |-> ep,
     frequence |-> f,
     psp |-> "stripe",
     tm_source |-> NoValue,
     tm_medium |-> NoValue,
     consolidated_revenues_ht_euro |-> 10]

\* the three numbers of a date: of a date, of no date (30 February) and empty
NoParts == <<NoPart, NoPart, NoPart>>

OrderCells == {Date(2023, 1, 31), NaT}

OrderParts == {<<2023, 1, 31>>, NoParts}

EcheanceCells == {Date(2023, 3, 10), Unparseable, NaT}

EcheanceParts == {<<2023, 3, 10>>, <<2023, 2, 30>>, NoParts}

Frequences == {BiMonthly, ANNUAL, NoFrequence}

\* most rows of a file whose dates need repair
MaxRaw == 2

\* files of up to MaxRaw rows of one or two subscriptions, whose dates may
\* be missing or unreadable as text, as numbers, or both
InitRepair ==
    /\ \E n \in 1..MaxRaw :
          \E f \in [1..n -> (1..MaxRaw) \X OrderCells \X OrderParts
                              \X EcheanceCells \X EcheanceParts
                              \X Frequences] :
              raw = [i \in 1..n |-> RawRow(1, f[i][1], f[i][2], f[i][3],
                                           f[i][4], f[i][5], f[i][6])]
    /\ df = <<>>
    /\ IdleCore
    /\ IdleOthersButRaw

\* pd.to_datetime of a year, a month and a day without errors='coerce', as
\* Claude_retention_analysis.py calls it: no date when one of the three is
\* missing (the row is dropped before the conversion), Unparseable when the
\* three are no date (the conversion raises)
to_datetime_raise(parts) ==
    IF \E k \in 1..3 : parts[k] = NoPart THEN NaT
    ELSE IF /\ parts[2] \in 1..12
            /\ parts[3] \in 1..DaysInMonth(parts[1], parts[2])
         THEN Date(parts[1], parts[2], parts[3])
         ELSE Unparseable

\* the row of df that the Claude script reads from a row of the same file
\* (its dates are made from the year, month and day columns)
AsTransaction(row) ==
    [customer_id |-> row.customer_id,
     subscription_id |-> row.subscription_id,
     order_date |-> to_datetime_raise(row.order_parts),
     echeance_date |-> to_datetime_raise(row.echeance_parts),
     frequence |-> row.frequence,
     psp |-> row.psp,
     tm_source |-> row.tm_source,
     tm_medium |-> row.tm_medium,
     consolidated_revenues_ht_euro |-> row.consolidated_revenues_ht_euro]

\* most rows of a file in which identifiers may be missing
MaxDirty == 2

\* files of up to MaxDirty rows in which the customer_id, the
\* subscription_id or a date may be missing, read by both scripts
InitDirty ==
    /\ \E n \in 1..MaxDirty :
          \E f \in [1..n -> {1, NoCustomer} \X {1, 2, NoSubscription}
                              \X {<<2023, 1, 31>>, NoParts}
                              \X {<<2023, 3, 10>>, <<2023, 2, 30>>, NoParts}
                              \X {Monthly, Annual}] :
              raw = [i \in 1..n |->
                       RawRow(f[i][1], f[i][2],
                              to_datetime_parts(f[i][3]), f[i][3],
                              to_datetime_parts(f[i][4]), f[i][4], f[i][5])]
    /\ df = [i \in 1..Len(raw) |-> AsTransaction(raw[i])]
    /\ IdleCore
    /\ IdleOthersButRaw

\* most rows of a file of amounts
MaxMontant == 2

\* the frequencies and the revenue cells of a file of amounts: a number, an
\* empty cell, a text that is no number
MontantFrequences ==
    {monthly_text, MONTHLY, BiMonthly, Annual, SemiAnnual, weekly, NoFrequence}

MontantRevenues == {0, 12, 30, NoRevenue, UnparseableRevenue}

\* files of up to MaxMontant subscriptions of one customer, complete but for
\* the frequency and the revenue, read by the scripts that compute Montant
InitMontant ==
    /\ \E n \in 1..MaxMontant :
          \E f \in [1..n -> MontantFrequences \X MontantRevenues] :
              raw = [i \in 1..n |->
                       [RawRow(1, i, Date(2023, 1, 31), <<2023, 1, 31>>,
                               Date(2023, 3, 10), <<2023, 3, 10>>, f[i][1])
                          EXCEPT !.consolidated_revenues_ht_euro = f[i][2]]]
    /\ df = [i \in 1..Len(raw) |-> AsTransaction(raw[i])]
    /\ IdleCore
    /\ IdleOthersButRaw

\* most rows of a file of revenues
MaxUpgrade == 3

\* the revenues of a file of revenues, in euros, the empty cell and the
\* cell whose text is no number
UpgradeRevenues == {4, 10, 12, NoRevenue, UnparseableRevenue}

\* the subscription_id of the rows of a file of revenues: a subscription a
\* row in the order of the file, two rows of one subscription after a row of
\* a later one, and a row without subscription_id
UpgradeIds ==
    {[i \in 1..MaxUpgrade |-> i],
     [i \in 1..MaxUpgrade |-> IF i = 1 THEN 2 ELSE 1],
     [i \in 1..MaxUpgrade |->
         IF i = 1 THEN 1 ELSE IF i = 2 THEN NoSubscription ELSE i - 1]}

\* files of up to MaxUpgrade rows of two customers, complete or without one
\* of the columns the script can do without
InitUpgrades ==
    /\ \E n \in 1..MaxUpgrade, ids \in UpgradeIds :
          \E f \in [1..n -> Customers \X OrderDates \X UpgradeRevenues] :
              df = [i \in 1..n |->
                      Transaction(ids[i], f[i][1], f[i][2], Date(2023, 6, 1),
                                  [OfferMonthly EXCEPT !.revenue = f[i][3]])]
    /\ \E absent \in SUBSET OptionalColumns :
          /\ Cardinality(absent) <= 1
          /\ up_columns = FileColumns \ absent
    /\ df_prepared = <<>>
    /\ df_upgrades = <<>>
    /\ final_report_columns = {}
    /\ upc = "start"
    /\ raw = <<>>
    /\ IdleCore
    /\ IdleStepsButUpgrades
    /\ IdleSample
    /\ IdleMain

\* recherche_upgrade.main: load_and_prepare_data
LoadAndPrepareData ==
    /\ upc = "start"
    /\ up_columns # {}
    /\ df_prepared' = load_and_prepare_data(df)
    /\ upc' = "prepared"
    /\ UNCHANGED <<up_columns, df_upgrades, final_report_columns>>
    /\ UNCHANGED <<core, significant_data, avg_retention, monthly_df_clean,
                   segmented_results, monthly_df_again, tool_vars, rf_vars,
                   ja_vars, repair_vars, main_vars>>

\* recherche_upgrade.main: find_revenue_upgrades, which returns None on an
\* empty table
FindRevenueUpgrades ==
    /\ upc = "prepared"
    /\ IF df_prepared = <<>>
       THEN /\ upc' = "none"
            /\ UNCHANGED df_upgrades
       ELSE /\ df_upgrades' = find_revenue_upgrades(df_prepared)
            /\ upc' = "found"
    /\ UNCHANGED <<up_columns, df_prepared, final_report_columns>>
    /\ UNCHANGED <<core, significant_data, avg_retention, monthly_df_clean,
                   segmented_results, monthly_df_again, tool_vars, rf_vars,
                   ja_vars, repair_vars, main_vars>>

\* recherche_upgrade.main: the columns of the report, when there are
\* upgrades
BuildUpgradeReport ==
    /\ upc = "found"
    /\ IF df_upgrades = <<>>
       THEN /\ upc' = "none"
            /\ UNCHANGED final_report_columns
       ELSE /\ final_report_columns' =
                   final_columns_to_select(
                       ShiftedColumns(PreparedColumns(up_columns)))
            /\ upc' = "report"
    /\ UNCHANGED <<up_columns, df_prepared, df_upgrades>>
    /\ UNCHANGED <<core, significant_data, avg_retention, monthly_df_clean,
                   segmented_results, monthly_df_again, tool_vars, rf_vars,
                   ja_vars, repair_vars, main_vars>>

\* most rows of one customer in a file to sample
MaxRowsOfCustomer == 2

\* most customers of a file to sample
MaxSampled == 5

\* the customers of a file to sample: 1..MaxSampled and the empty cell
SampledCustomers ==
    [k \in 1..(MaxSampled + 1) |-> IF k <= MaxSampled THEN k ELSE NoCustomer]

\* the fractions tried, in percent: the script's 0.20, a half, and 1.5,
\* which sample() refuses
Fractions == {20, 50, 150}

\* the file of counts[k] rows of the k-th customer, for every k
SampleFile(counts) ==
    LET rows == Concat([k \in 1..Len(SampledCustomers) |->
                   [j \in 1..counts[k] |-> SampledCustomers[k]]])
    IN [i \in 1..Len(rows) |->
          Transaction(i, rows[i], Date(2022, 1, 15), Date(2022, 2, 15),
                      OfferMonthly)]

InitSample ==
    /\ \E counts \in [1..(MaxSampled + 1) -> 0..MaxRowsOfCustomer] :
          df = SampleFile(counts)
    /\ fraction \in Fractions
    /\ sampled_customer_ids = {}
    /\ df_sampled = <<>>
    /\ spc = "start"
    /\ raw = <<>>
    /\ IdleCore
    /\ IdleStepsButUpgrades
    /\ IdleUpgrades
    /\ IdleMain

\* sample_by_customer_id: the draw, the filter and the output file; sample()
\* raises when asked for more values than there are, and nothing is written
SampleByCustomerId ==
    /\ spc = "start"
    /\ LET values == unique_customers(df)
           n == n_customers_to_sample(Len(values), fraction)
       IN IF n > Len(values)
          THEN /\ spc' = "error"
               /\ UNCHANGED <<sampled_customer_ids, df_sampled>>
          ELSE /\ \E ids \in Samples(values, n) :
                     /\ sampled_customer_ids' = ids
                     /\ df_sampled' = isin(df, ids)
               /\ spc' = "written"
    /\ UNCHANGED <<core, fraction, significant_data, avg_retention,
                   monthly_df_clean, segmented_results, monthly_df_again,
                   upgrade_vars, churn_vars, dash_vars, rf_vars, ja_vars,
                   repair_vars, main_vars>>

\* gemini/analyse_abo_court.main, step 4: analyze_churn_characteristics, which
\* returns at once on an empty report
AnalyzeChurnCharacteristics ==
    /\ gpc = "report"
    /\ apc = "start"
    /\ IF final_df = <<>>
       THEN /\ apc' = "returned"
            /\ UNCHANGED <<df_churners, df_retained>>
       ELSE /\ df_churners' = df_churners_of(final_df)
            /\ df_retained' = df_retained_of(final_df)
            /\ apc' = "analyzed"
    /\ UNCHANGED <<core, significant_data, avg_retention, monthly_df_clean,
                   segmented_results, monthly_df_again, upgrade_vars,
                   sample_vars, dash_vars, rf_vars, ja_vars, repair_vars,
                   main_vars>>

\* the cohorts of a sheet: one before every cutoff of 2023, one between them
Cohortes == {<<1, 2023>>, <<9, 2023>>}

\* most initial customers of a row of a sheet
MaxClients == 2

\* the values of segment-dropdown that are tried, the second a sheet that
\* was loaded, the third one that was not
SegmentOptions == {"global", "Retention_Frequence", "Retention_Psp"}

\* the values of view-type-dropdown
ViewTypes == {"comparison", "evolution"}

\* the values of cohort-filter-dropdown
CohortFilters == {"all", "2023-12", "2023-06", "2022-12", "2022-06"}

SheetRow(v, cohorte, month, initiaux, actifs) ==
    [segment_value |-> v, cohorte |-> cohorte, mois_relatif |-> month,
     clients_initiaux |-> initiaux, clients_actifs |-> actifs]

\* the further rows of a sheet: a row of the later cohort for one of the
\* first two segment values at month 0, 1 or 26, with counts that are valid
\* or not
FurtherRows ==
    {SheetRow(SegmentValues[k], <<9, 2023>>, m, i, a) :
        k \in {1, 2}, m \in {0, 1, max_months + 1},
        i \in {0, 1}, a \in {-1, 1, 5}}

\* a sheet 'Retention_Frequence' with, for every segment value, a row at
\* month 0 of 0 to MaxClients initial customers of whom one is active, the
\* first value in either cohort, and no or one further row
InitDash ==
    /\ \E sizes \in [1..Len(SegmentValues) -> 0..MaxClients] :
          \E c \in Cohortes :
              \E further \in {<<>>} \cup {<<row>> : row \in FurtherRows} :
                  segments_data =
                      [t \in {"Retention_Frequence"} |->
                          [k \in 1..Len(SegmentValues) |->
                              SheetRow(SegmentValues[k],
                                       IF k = 1 THEN c ELSE <<1, 2023>>,
                                       0, sizes[k], 1)] \o further]
    /\ selected_segment = "none"
    /\ view_type = "none"
    /\ cohort_filter = "none"
    /\ evolution_data = <<>>
    /\ main_segments = <<>>
    /\ figure = [kind |-> "none", traces |-> {}]
    /\ callbacks = 0
    /\ df = <<>>
    /\ raw = <<>>
    /\ IdleCore
    /\ IdleChurn
    /\ IdleSample
    /\ IdleUpgrades
    /\ IdleMain
    /\ IdleRest

\* most callbacks of the segment chart that are followed
MaxCallbacks == 1

\* the callback of the three dropdowns of the segment chart
UpdateSegmentChart ==
    /\ callbacks < MaxCallbacks
    /\ callbacks' = callbacks + 1
    /\ \E segment \in SegmentOptions, view \in ViewTypes,
          filter \in CohortFilters :
          LET returned ==
                  update_segment_chart(segments_data, segment, view, filter)
          IN /\ selected_segment' = segment
             /\ view_type' = view
             /\ cohort_filter' = filter
             /\ figure' = returned.figure
             /\ IF returned.called
                THEN /\ evolution_data' = returned.prepared.evolution_data
                     /\ main_segments' = returned.prepared.main_segments
                ELSE UNCHANGED <<evolution_data, main_segments>>
    /\ UNCHANGED segments_data
    /\ UNCHANGED <<core, significant_data, avg_retention, monthly_df_clean,
                   segmented_results, monthly_df_again, upgrade_vars,
                   sample_vars, churn_vars, rf_vars, ja_vars, repair_vars,
                   main_vars>>

\* create_monthly_retention_table called once more on the loaded table
CreateMonthlyRetentionTableAgain ==
    /\ pc = "monthly"
    /\ monthly_df_again = <<>>
    /\ monthly_df_again' = create_monthly_retention_table(df_clean)
    /\ UNCHANGED <<core, significant_data, avg_retention, monthly_df_clean,
                   segmented_results, upgrade_vars, tool_vars, rf_vars,
                   ja_vars, repair_vars, main_vars>>

\* gemini/lancer_analyse.main, steps 1 and 2 on the rows of the file: the
\* loader drops the repeated rows, group_and_repair_data groups the rows of
\* a subscription and repairs the dates
GroupAndRepairData ==
    /\ lpc = "start"
    /\ raw # <<>>
    /\ IF HasStrAccessor(raw)
       THEN /\ df_grouped' = group_and_repair_data(drop_duplicates(raw))
            /\ supprimes' = dropped_rows(drop_duplicates(raw))
            /\ lpc' = "repaired"
       ELSE /\ lpc' = "error"
            /\ UNCHANGED <<df_grouped, supprimes>>
    /\ UNCHANGED <<raw, lancer_sorted, lancer_df, rpc, rf_grouped>>
    /\ UNCHANGED <<core, claude_others, ja_vars, main_vars>>

\* gemini/lancer_analyse.main, step 3
CreateMonthlyReportLancer ==
    /\ lpc = "repaired"
    /\ lancer_sorted' = JourneySegmentation(df_grouped)
    /\ lancer_df' = create_monthly_report(lancer_sorted')
    /\ lpc' = "report"
    /\ UNCHANGED <<raw, df_grouped, supprimes, rpc, rf_grouped>>
    /\ UNCHANGED <<core, claude_others, ja_vars, main_vars>>

\* gemini/rapport_final.main, steps 1 and 2 on the rows of the same file,
\* run when lancer_analyse has ended
GroupAndRepairDataRF ==
    /\ rpc = "start"
    /\ lpc \in {"report", "error"}
    /\ IF HasStrAccessor(raw)
       THEN /\ rf_grouped' = group_and_repair_dataRF(drop_duplicates(raw))
            /\ rpc' = "repaired"
       ELSE /\ rpc' = "error"
            /\ UNCHANGED rf_grouped
    /\ UNCHANGED <<raw, lpc, df_grouped, supprimes, lancer_sorted, lancer_df>>
    /\ UNCHANGED <<core, claude_others, ja_vars, main_vars>>

\* gemini/rapport_final.main, step 3
CreateMonthlyReportRF ==
    /\ rpc = "repaired"
    /\ rf_df' = create_monthly_reportRF(JourneySegmentation(rf_grouped))
    /\ rpc' = "report"
    /\ UNCHANGED <<raw, lpc, df_grouped, supprimes, lancer_sorted, lancer_df,
                   rf_grouped>>
    /\ UNCHANGED <<core, significant_data, avg_retention, monthly_df_clean,
                   segmented_results, monthly_df_again, upgrade_vars,
                   tool_vars, ja_vars, main_vars>>

\* most rows of a file of any dates
MaxIndexed == 2

\* the dates of a file of any dates, as their year, month and day columns
IndexedOrderParts == {<<2022, 12, 20>>, <<2023, 4, 14>>, NoParts}

IndexedEcheanceParts == {<<2022, 11, 30>>, <<2023, 3, 10>>, <<2023, 6, 1>>,
                         NoParts}

\* the subscription_id of the rows of a file of any dates: a subscription a
\* row, or every row of the same subscription
IndexedIds == {[i \in 1..MaxIndexed |-> i], [i \in 1..MaxIndexed |-> 1]}

\* files of up to MaxIndexed rows of two customers, any of their dates
\* missing, before or after the other one
InitIndexed ==
    /\ \E n \in 1..MaxIndexed, ids \in IndexedIds :
          \E f \in [1..n -> Customers \X IndexedOrderParts
                              \X IndexedEcheanceParts \X {Monthly, Annual}] :
              raw = [i \in 1..n |->
                       RawRow(f[i][1], ids[i],
                              to_datetime_parts(f[i][2]), f[i][2],
                              to_datetime_parts(f[i][3]), f[i][3], f[i][4])]
    /\ df = [i \in 1..Len(raw) |-> AsTransaction(raw[i])]
    /\ IdleCore
    /\ IdleOthersButRaw

-----------------------------------------------------------------------------
(* The five mains, stage by stage. A stage takes what the stage before it  *)
(* returned (a table or None) and returns a table, returns None, or raises.*)
(* What it does depends on the columns of the file and on its rows: some   *)
(* columns are read only for the rows that reach the place of the read.    *)

Scripts == {"Claude_retention_analysis", "pipeline_JA", "analyse_abo_court",
            "rapport_final", "lancer_analyse"}

\* the stages of a main, in the order of its calls; "analysis" stands for
\* the calls between the monthly table and the export
Stages(s) ==
    CASE s = "Claude_retention_analysis" ->
             <<"load", "monthly", "analysis", "export">>
      [] s = "pipeline_JA" -> <<"load", "group", "report", "export">>
      [] OTHER -> <<"load", "group", "report", "analysis", "export">>

\* the columns whose absence is looked at
AbsentColumns == {"customer_id", "subscription_id", "order_date",
                  "ECHEANCE_date", "ECHEANCE_jour", "frequence", "psp",
                  "discount", "consolidated_revenues_ht_euro"}

\* a file that is not there, and one that read_csv cannot parse
Unreadable == {"not found", "not a table"}

\* what a script finds on disk: a complete file, no file, or a file without
\* one of its columns
Sources == {"ok"} \cup Unreadable \cup AbsentColumns

\* the columns that a stage reads by name whatever the rows of its table, so
\* that it raises KeyError without them (a column read with a default, as
\* getattr(row, 'consolidated_revenues_ht_euro', '0'), is not one of them)
Needs(s, stage) ==
    CASE s = "Claude_retention_analysis" /\ stage = "load" ->
             {"customer_id", "ECHEANCE_jour"}
      [] s = "Claude_retention_analysis" /\ stage = "monthly" ->
             {"customer_id"}
      [] s # "Claude_retention_analysis" /\ stage = "load" -> {"discount"}
      [] s \in {"pipeline_JA", "analyse_abo_court"} /\ stage = "group" ->
             {"subscription_id", "ECHEANCE_date"}
      [] s \in {"rapport_final", "lancer_analyse"} /\ stage = "group" ->
             {"subscription_id", "order_date", "ECHEANCE_date",
              "ECHEANCE_jour", "frequence"}
      [] s = "pipeline_JA" /\ stage = "report" ->
             {"order_date", "ECHEANCE_date", "customer_id"}
      [] s = "analyse_abo_court" /\ stage = "report" ->
             {"order_date", "ECHEANCE_date", "customer_id", "frequence"}
      [] s \in {"rapport_final", "lancer_analyse"} /\ stage = "report" ->
             {"customer_id", "frequence"}
      [] OTHER -> {}

\* the columns that a stage reads by name only when a row reaches the read:
\* in the loop over the months of a transaction
\* (Claude_retention_analysis.create_monthly_retention_table) or of a
\* subscription with both dates (pipeline_JA.create_monthly_report), and
\* after "if df is None or df.empty: return" in the analysis functions
NeedsOfRows(s, stage) ==
    CASE s = "Claude_retention_analysis" /\ stage = "monthly" ->
             {"subscription_id", "frequence", "psp",
              "consolidated_revenues_ht_euro"}
      [] s = "pipeline_JA" /\ stage = "report" ->
             {"frequence", "psp", "discount", "consolidated_revenues_ht_euro"}
      [] s \in {"analyse_abo_court", "rapport_final", "lancer_analyse"}
             /\ stage = "analysis" -> {"frequence", "psp"}
      [] OTHER -> {}

\* the table that Claude_retention_analysis.py reads from the rows of a file
AsTransactions(file) == [i \in 1..Len(file) |-> AsTransaction(file[i])]

\* the table that the second stage of a gemini main returns on the rows of
\* a file, which its loader has read and freed of repeated rows
\* (df_merged.drop_duplicates())
Grouped(s, file) ==
    CASE s = "lancer_analyse" -> group_and_repair_data(drop_duplicates(file))
      [] s = "rapport_final" -> group_and_repair_dataRF(drop_duplicates(file))
      [] OTHER -> group_by_subscription(drop_duplicates(file))

\* the monthly report that the third stage of a gemini main returns on the
\* rows of a file
Report(s, file) ==
    CASE s = "pipeline_JA" -> create_monthly_reportJA(Grouped(s, file))
      [] s = "rapport_final" ->
             create_monthly_reportRF(JourneySegmentation(Grouped(s, file)))
      [] OTHER -> create_monthly_report(JourneySegmentation(Grouped(s, file)))

\* monthly_df['consolidated_revenues_ht_euro'].fillna(0)
revenue_clean(frame) ==
    [i \in 1..Len(frame) |->
        IF frame[i].consolidated_revenues_ht_euro = NoRevenue THEN 0
        ELSE frame[i].consolidated_revenues_ht_euro]

\* the value at place j, counted from 0, of the values in ascending order
Ranked(values, j) ==
    CHOOSE v \in Range(values) :
        /\ Cardinality({i \in 1..Len(values) : values[i] < v}) <= j
        /\ j < Cardinality({i \in 1..Len(values) : values[i] <= v})

\* four times Series.quantile(k / 4): the value at place (n - 1) * k / 4 of
\* the n values in ascending order, between two places the value that lies
\* as far between the two values
quantile(values, k) ==
    LET h == (Len(values) - 1) * k
        below == Ranked(values, h \div 4)
        above == Ranked(values, IF h % 4 = 0 THEN h \div 4 ELSE (h \div 4) + 1)
    IN 4 * below + (h % 4) * (above - below)

\* pd.qcut(values, q=4, labels=...) raises ValueError when two of the five
\* edges of its bins are equal
qcut_raises(values) ==
    Cardinality({quantile(values, k) : k \in 0..4}) < 5

\* a loader that returns the table of every file it can read, whatever
\* its columns and its rows
load_and_merge_dataPartial(s, src, file) ==
    IF src \in Unreadable THEN "None" ELSE "table"

\* the loader of a script on a source with the rows of a file: "table",
\* "None" or "raise". Claude_retention_analysis.load_and_clean_data lets the
\* errors of read_csv and of df['customer_id'] through, returns None when
\* the dates cannot be made, and raises in NaT.strftime when no row is left
\* by dropna; the gemini loaders return None on every exception, but for
\* pipeline_JA, which catches FileNotFoundError and KeyError only
load_and_merge_data(s, src, file) ==
    IF s = "Claude_retention_analysis"
    THEN IF src \in Unreadable \/ src = "customer_id" THEN "raise"
         ELSE IF src = "ECHEANCE_jour" \/ ConversionRaises(AsTransactions(file))
              THEN "None"
         ELSE IF load_and_clean_data(AsTransactions(file)) = <<>> THEN "raise"
         ELSE "table"
    ELSE IF src \in Unreadable \cup Needs(s, "load")
         THEN IF s = "pipeline_JA" /\ src = "not a table" THEN "raise"
              ELSE "None"
         ELSE "table"

\* the analysis of Claude_retention_analysis.main, steps 3 to 8, on the
\* monthly table: calculate_cohort_retention raises in sort_values when no
\* cohort has a customer at month 0, analyze_revenue_correlation in pd.qcut
\* when the quartiles of the revenue are not four different bins
analysis_raises(frame) ==
    \/ calculate_cohort_retention(frame) = <<>>
    \/ qcut_raises(revenue_clean(frame))

\* a stage after the loader on what it is given, for a source and the rows
\* of its file: "table", "empty" (a table without rows), "None", "raise",
\* or "return" when an analysis function returns at once on an empty
\* report. The gemini stages hand None on (if df is None: return None),
\* those of Claude_retention_analysis raise on it; on a table a stage raises
\* when a column it reads is absent, when .str is asked of a frequency
\* column without text, and when pd.DataFrame([]) is asked for a column
\* (drop_duplicates(subset=...) on a monthly table without rows). The
\* charts that analyse_abo_court draws in its analysis are left out
stage_result(s, stage, src, given, file) ==
    LET cleaned == load_and_clean_data(AsTransactions(file))
    IN IF given = "None"
       THEN IF s = "Claude_retention_analysis" THEN "raise" ELSE "None"
       ELSE IF src \in Needs(s, stage) THEN "raise"
       ELSE IF stage = "monthly"
            THEN IF MonthlyData(cleaned) = <<>>
                    \/ src \in NeedsOfRows(s, stage)
                 THEN "raise" ELSE "table"
       ELSE IF s = "Claude_retention_analysis"
            THEN IF analysis_raises(create_monthly_retention_table(cleaned))
                 THEN "raise" ELSE "table"
       ELSE IF stage = "group"
            THEN IF s \in {"rapport_final", "lancer_analyse"}
                    /\ ~HasStrAccessor(file)
                 THEN "raise"
                 ELSE IF Grouped(s, file) = <<>> THEN "empty" ELSE "table"
       ELSE IF stage = "report"
            THEN IF s # "pipeline_JA" /\ ~HasStrAccessor(file) THEN "raise"
                 ELSE IF Report(s, file) = <<>> THEN "empty"
                 ELSE IF src \in NeedsOfRows(s, stage) THEN "raise"
                 ELSE "table"
       ELSE IF Report(s, file) = <<>> THEN "return"
       ELSE IF src \in NeedsOfRows(s, stage) THEN "raise"
       ELSE "table"

\* the save block of a gemini main on the monthly report (a table, or
\* "empty" for pd.DataFrame([]), which has no columns): the set of what can
\* become of the output file, TRUE for written. On the empty report
\* analyse_abo_court writes it with to_csv; pipeline_JA selects
\* final_columns and lancer_analyse merges on 'subscription_id', which
\* raise KeyError inside the try, and nothing is written; rapport_final has
\* no sheet to write and closes the workbook, and whether a workbook
\* without a sheet of its own is written is decided by xlsxwriter, not by
\* the script: either may happen
save_writes(s, given) ==
    IF given = "table" THEN {TRUE}
    ELSE IF given = "empty" /\ s = "analyse_abo_court" THEN {TRUE}
    ELSE IF given = "empty" /\ s = "rapport_final" THEN BOOLEAN
    ELSE {FALSE}

\* where a main is after an exception: Claude_retention_analysis.main
\* catches it and returns, the other mains end with it
after_raise(s) == IF s = "Claude_retention_analysis" THEN "failed" ELSE "crashed"

\* the stage that follows position p of the main of s, "ended" when the
\* main has returned or stopped
next_stage(s, p) ==
    IF p = "start" THEN "load"
    ELSE IF \E i \in 1..(Len(Stages(s)) - 1) : Stages(s)[i] = p
         THEN Stages(s)[1 + CHOOSE i \in 1..Len(Stages(s)) : Stages(s)[i] = p]
         ELSE "ended"

\* a row of the file of a run, its dates written as text and as numbers
MainRow(c, id, order, echeance, f, revenue) ==
    [RawRow(c, id, to_datetime_parts(order), order,
            to_datetime_parts(echeance), echeance, f)
        EXCEPT !.consolidated_revenues_ht_euro = revenue]

\* a subscription written on three rows of which the third repeats the
\* first: the loaders drop it, and the due date of the subscription is
\* that of the second row
Repeated(first, second) == <<first, second, first>>

\* the files of a run. One subscription: of customer 1 or of no customer,
\* from 31 January or 14 April 2023, due on 10 March or 20 April 2023 (in
\* the month of the start, later, or before it) or without due date, its
\* frequency 'Monthly' or empty. Two subscriptions of one month of two
\* customers, with the same revenue or not. One subscription with a
\* repeated row, due before its start on the second row, or with a due
\* date that is no date there
MainFiles ==
    {<<MainRow(c, 1, order, echeance, f, 10)>> :
        c \in {1, NoCustomer},
        order \in {<<2023, 1, 31>>, <<2023, 4, 14>>},
        echeance \in {<<2023, 3, 10>>, <<2023, 4, 20>>, NoParts},
        f \in {Monthly, NoFrequence}}
    \cup {<<MainRow(1, 1, <<2023, 4, 14>>, <<2023, 4, 20>>, Monthly, 10),
            MainRow(2, 2, <<2023, 4, 14>>, <<2023, 4, 20>>, Monthly, revenue)>> :
             revenue \in {10, 20}}
    \cup {Repeated(MainRow(1, 1, <<2023, 4, 14>>, <<2023, 4, 20>>, Monthly, 10),
                    MainRow(1, 1, <<2023, 4, 14>>, <<2023, 3, 10>>, Monthly, 10)),
           Repeated(RawRow(1, 1, Date(2023, 4, 14), <<2023, 4, 14>>,
                           Date(2023, 4, 20), NoParts, Annual),
                    RawRow(1, 1, Date(2023, 4, 14), <<2023, 4, 14>>,
                           Unparseable, NoParts, Annual))}

\* a script is started on a source
InitMain ==
    /\ script \in Scripts
    /\ source \in Sources
    /\ mpc = "start"
    /\ table = "unset"
    /\ ran = <<>>
    /\ written = FALSE
    /\ raw \in MainFiles
    /\ df = AsTransactions(raw)
    /\ IdleCore
    /\ IdleSteps

\* the first call of a main: the loader
MainLoad ==
    /\ script \in Scripts
    /\ mpc = "start"
    /\ LET result == load_and_merge_data(script, source, raw)
       IN /\ table' = IF result = "raise" THEN table ELSE result
          /\ mpc' = IF result = "raise" THEN after_raise(script) ELSE "load"
          /\ ran' = IF result = "table" THEN Append(ran, "load") ELSE ran
    /\ UNCHANGED <<script, source, written>>
    /\ UNCHANGED <<core, claude_others, ja_vars, repair_vars>>

\* a call between the loader and the export. In the gemini mains the calls
\* after the monthly report stand under "if df_monthly_report is not None";
\* an analysis function that returns at once leaves the report as it is
MainStage ==
    /\ script \in Scripts
    /\ next_stage(script, mpc) \in {"monthly", "group", "report", "analysis"}
    /\ LET stage == next_stage(script, mpc)
           result == stage_result(script, stage, source, table, raw)
       IN IF stage = "analysis" /\ table = "None"
             /\ script # "Claude_retention_analysis"
          THEN /\ mpc' = "ended"
               /\ UNCHANGED <<table, ran>>
          ELSE /\ table' = IF result \in {"raise", "return"} THEN table
                           ELSE result
               /\ mpc' = IF result = "raise" THEN after_raise(script) ELSE stage
               /\ ran' = IF result \in {"table", "empty"}
                         THEN Append(ran, stage) ELSE ran
    /\ UNCHANGED <<script, source, written>>
    /\ UNCHANGED <<core, claude_others, ja_vars, repair_vars>>

\* the export: export_results of Claude_retention_analysis, the save block
\* of a gemini main, which stands under the same "is not None" and in a try
\* of its own: when it raises the main returns and nothing is written
MainExport ==
    /\ script \in Scripts
    /\ next_stage(script, mpc) = "export"
    /\ \E saved \in save_writes(script, table) :
           IF saved
           THEN /\ written' = TRUE
                /\ ran' = Append(ran, "export")
                /\ mpc' = "export"
           ELSE /\ mpc' = IF script = "Claude_retention_analysis"
                          THEN "failed" ELSE "ended"
                /\ UNCHANGED <<written, ran>>
    /\ UNCHANGED <<script, source, table>>
    /\ UNCHANGED <<core, claude_others, ja_vars, repair_vars>>

\* gemini/pipeline_JA.main on the same file: load_and_merge_data drops the
\* repeated rows, group_by_subscription makes one row of the rows of a
\* subscription, create_monthly_report segments and expands them
CreateMonthlyReportJA ==
    /\ jpc = "start"
    /\ gpc \in {"report", "error"}
    /\ ja_df' = create_monthly_reportJA(
                    group_by_subscription(drop_duplicates(df)))
    /\ jpc' = "report"
    /\ UNCHANGED <<core, claude_others, repair_vars, main_vars>>

Next ==
    \/ LoadAndCleanData
    \/ CreateMonthlyRetentionTable
    \/ CalculateCohortRetention
    \/ CreateMonthlyReport

Spec == Init /\ [][Next]_vars

SpecMissing == InitMissing /\ [][Next]_vars

SpecOne == InitOne /\ [][Next]_vars

SpecRetention == InitRetention /\ [][CalculateCohortRetention]_vars

\* the three scripts that expand transactions into monthly rows
NextExpanders ==
    \/ Next
    \/ CreateMonthlyReportJA

SpecExpanders == InitOne /\ [][NextExpanders]_vars

\* the two scripts that repair the dates
NextRepair ==
    \/ GroupAndRepairData
    \/ CreateMonthlyReportLancer
    \/ GroupAndRepairDataRF

SpecRepair == InitRepair /\ [][NextRepair]_vars

\* the cleaning and the expansion of Claude_retention_analysis.py and of
\* gemini/lancer_analyse.py on one file
NextDirty ==
    \/ LoadAndCleanData
    \/ CreateMonthlyRetentionTable
    \/ GroupAndRepairData
    \/ CreateMonthlyReportLancer

SpecDirty == InitDirty /\ [][NextDirty]_vars

\* the scripts of the first file, and lancer_analyse on the same file
NextMontant ==
    \/ Next
    \/ GroupAndRepairData
    \/ CreateMonthlyReportLancer

SpecMontant == InitMontant /\ [][NextMontant]_vars

\* Claude_retention_analysis.main, steps 1 and 2, and step 2 once more
NextTwice ==
    \/ LoadAndCleanData
    \/ CreateMonthlyRetentionTable
    \/ CreateMonthlyRetentionTableAgain

SpecTwice == Init /\ [][NextTwice]_vars

\* recherche_upgrade.main
NextUpgrades ==
    \/ LoadAndPrepareData
    \/ FindRevenueUpgrades
    \/ BuildUpgradeReport

SpecUpgrades == InitUpgrades /\ [][NextUpgrades]_vars

\* the four scripts that number the months of a journey, on one file
NextIndexed ==
    \/ Next
    \/ GroupAndRepairData
    \/ CreateMonthlyReportLancer
    \/ GroupAndRepairDataRF
    \/ CreateMonthlyReportRF

SpecIndexed == InitIndexed /\ [][NextIndexed]_vars

\* the two pipelines, and the analysis of the churn after the report
NextChurn ==
    \/ Next
    \/ AnalyzeChurnCharacteristics

SpecChurn == Init /\ [][NextChurn]_vars

\* dashboard_retention.py: the callbacks of the segment chart
NextDash ==
    \/ UpdateSegmentChart

SpecDash == InitDash /\ [][NextDash]_vars

\* gemini/creer_echantillion.py
NextSample ==
    \/ SampleByCustomerId

SpecSample == InitSample /\ [][NextSample]_vars

\* one main from its loader to its export
NextMain ==
    \/ MainLoad
    \/ MainStage
    \/ MainExport

SpecMain == InitMain /\ [][NextMain]_vars

\* Claude_retention_analysis.main, steps 1 to 6
NextClaude ==
    \/ LoadAndCleanData
    \/ CreateMonthlyRetentionTable
    \/ CalculateCohortRetention
    \/ AnalyzeRetentionTrends
    \/ CalculateSegmentedRetention

SpecCrowd == InitCrowd /\ [][NextClaude]_vars

-----------------------------------------------------------------------------
(* Properties                                                              *)

Rows(frame) == 1..Len(frame)

\* calculate_cohort_retention has returned a table
Returned == pc = "retention"

\* the loop of create_monthly_retention_table has ended
Expanded ==
    pc \in {"monthly", "retention"} \/ (pc = "error" /\ df_clean # <<>>)

\* create_monthly_retention_table has returned a table
MonthlyReturned ==
    pc \in {"monthly", "retention"} \/ (pc = "error" /\ monthly_df # <<>>)

\* create_monthly_report has returned
Reported == gpc = "report"

\* C1: every cohort of the table returned by calculate_cohort_retention has
\* a row for relative month 0, and that row has as many active customers as
\* initial customers and a retention rate of exactly 100.0
C1_MonthZeroIsFull ==
    Returned =>
        \A i \in Rows(retention_df) :
            /\ \E j \in Rows(retention_df) :
                  /\ retention_df[j].cohorte = retention_df[i].cohorte
                  /\ retention_df[j].mois_relatif = 0
            /\ retention_df[i].mois_relatif = 0 =>
                  /\ retention_df[i].clients_actifs = retention_df[i].clients_initiaux
                  /\ retention_df[i].taux_retention = 10000

\* a table was returned in which a cohort has lost customers after month 0
C1_Witness ==
    /\ Returned
    /\ \E i, j \in Rows(retention_df) :
          /\ retention_df[i].cohorte = retention_df[j].cohorte
          /\ retention_df[i].mois_relatif = 0
          /\ retention_df[j].mois_relatif > 0
          /\ retention_df[j].clients_actifs < retention_df[i].clients_actifs

\* C2: in the retention table made from a loaded file, no cohort has more
\* active customers at a relative month m > 0 than initial customers, so no
\* retention rate exceeds 100
C2_ActiveWithinInitial ==
    Returned =>
        \A i \in Rows(retention_df) :
            retention_df[i].mois_relatif > 0 =>
                /\ retention_df[i].clients_actifs <= retention_df[i].clients_initiaux
                /\ retention_df[i].taux_retention <= 10000


\* row i of df_sorted has its start date and its due date
Dated(i) ==
    ~isna(df_sorted[i].order_date) /\ ~isna(df_sorted[i].echeance_date)

\* the dated subscriptions of the customer of row i that come before it
DatedBefore(i) ==
    {j \in 1..(i - 1) : df_sorted[j].customer_id = df_sorted[i].customer_id
                          /\ Dated(j)}

\* C3: among the subscriptions that take part in the segmentation (a
\* subscription without a date is excluded from it), a subscription starts
\* a new journey if and only if it is its customer's first subscription, or
\* its start date is at least 35 days (frequency monthly, in any case) or at
\* least 90 days (any other frequency, or none) after the due date of the
\* subscription before it
C3_NewJourneyIff ==
    Reported =>
        \A i \in Rows(df_sorted) :
            Dated(i) =>
                LET sub == df_sorted[i]
                    threshold ==
                        IF ContainsMonthly(sub.frequence)
                        THEN 35 ELSE 90
                    first == DatedBefore(i) = {}
                    before == CHOOSE j \in DatedBefore(i) :
                                  \A k \in DatedBefore(i) : k <= j
                    gap_days == DaysBetween(sub.order_date,
                                            df_sorted[before].echeance_date)
                IN sub.nouveau_parcours <=> (first \/ gap_days >= threshold)

\* C4: every subscription of the file carries exactly one journey id, no
\* journey id is carried by subscriptions of two customers, and along the
\* subscriptions of a customer in start date order the journey ids never
\* decrease, so that a journey is a run of consecutive subscriptions
C4_JourneysPartition ==
    Reported =>
        /\ Len(df_sorted) = Len(df)
        /\ \A t \in Rows(df) :
              Cardinality({i \in Rows(df_sorted) :
                  df_sorted[i].subscription_id = df[t].subscription_id}) = 1
        /\ \A i, j \in Rows(df_sorted) :
              df_sorted[i].id_parcours = df_sorted[j].id_parcours =>
                  df_sorted[i].customer_id = df_sorted[j].customer_id
        /\ \A i, j \in Rows(df_sorted) :
              (i < j /\ df_sorted[i].customer_id = df_sorted[j].customer_id) =>
                  /\ DateLE(df_sorted[i].order_date, df_sorted[j].order_date)
                  /\ df_sorted[i].id_parcours[2] <= df_sorted[j].id_parcours[2]
        /\ \A i, k, j \in Rows(df_sorted) :
              (i < k /\ k < j
                 /\ df_sorted[i].id_parcours = df_sorted[j].id_parcours) =>
                  df_sorted[k].id_parcours = df_sorted[i].id_parcours

\* two customers were segmented, one of them into two journeys
C4_Witness ==
    /\ Reported
    /\ \E i, j, k \in Rows(df_sorted) :
          /\ df_sorted[i].customer_id # df_sorted[k].customer_id
          /\ df_sorted[i].customer_id = df_sorted[j].customer_id
          /\ df_sorted[i].id_parcours # df_sorted[j].id_parcours

\* C5: two journeys of a customer do not overlap in time: every subscription
\* of the earlier journey is due before any subscription of the later
\* journey starts
C5_JourneysDoNotOverlap ==
    Reported =>
        \A i, j \in Rows(df_sorted) :
            (/\ df_sorted[i].customer_id = df_sorted[j].customer_id
             /\ df_sorted[i].id_parcours[2] < df_sorted[j].id_parcours[2]) =>
                DateLT(df_sorted[i].echeance_date, df_sorted[j].order_date)


\* the k-th calendar month from the month of timestamp t on, t's own month
\* being the first, as <<year, month>>
KthMonth(t, k) ==
    LET n == t.y * 12 + (t.m - 1) + (k - 1) IN <<n \div 12, (n % 12) + 1>>

\* C6: before any deduplication, a transaction whose due month is not
\* before its start month gives exactly one row per calendar month from the
\* start month to the due month, (due.year - start.year) * 12 +
\* (due.month - start.month) + 1 rows of consecutive months, January of the
\* next year after December, in both scripts; from 01/2023 to 03/2023 in a
\* journey that starts in 01/2023 the rows are 3, of relative month 0, 1, 2
C6_OneRowPerMonth ==
    \A i \in Rows(df) :
        LET t == df[i]
            start == t.order_date
            due == t.echeance_date
            n == (due.y - start.y) * 12 + (due.m - start.m) + 1
            mine(frame) ==
                SelectSeq(frame, LAMBDA r : r.subscription_id = t.subscription_id)
            example == /\ <<start.y, start.m>> = <<2023, 1>>
                       /\ <<due.y, due.m>> = <<2023, 3>>
        IN (~isna(start) /\ ~isna(due) /\ n >= 1) =>
              /\ Expanded =>
                    LET rows == mine(monthly_data)
                    IN /\ Len(rows) = n
                       /\ \A k \in 1..Len(rows) :
                             rows[k].mois = <<KthMonth(start, k)[2],
                                              KthMonth(start, k)[1]>>
                       /\ (example /\ rows[1].date_debut_parcours = <<1, 2023>>) =>
                             [k \in 1..Len(rows) |-> rows[k].mois_relatif]
                                 = <<0, 1, 2>>
              /\ Reported =>
                    LET rows == mine(final_df)
                    IN /\ Len(rows) = n
                       /\ \A k \in 1..Len(rows) :
                             rows[k].month = Date(KthMonth(start, k)[1],
                                                  KthMonth(start, k)[2], 1)
                       /\ (example /\ rows[1].journey_start_date.y = 2023
                                   /\ rows[1].journey_start_date.m = 1) =>
                             [k \in 1..Len(rows) |-> rows[k].month_relatif]
                                 = <<0, 1, 2>>

\* both scripts have expanded a transaction from December 2022 to January
\* 2024 into 14 rows
C6_Witness ==
    /\ Expanded
    /\ Reported
    /\ \E i \in Rows(df) :
          /\ <<df[i].order_date.y, df[i].order_date.m>> = <<2022, 12>>
          /\ <<df[i].echeance_date.y, df[i].echeance_date.m>> = <<2024, 1>>
    /\ Len(monthly_data) = 14
    /\ Len(final_df) = 14

\* a row of monthly_df and a row of final_df for the same subscription and
\* the same calendar month
SameSubscriptionMonth(r, g) ==
    /\ r.subscription_id = g.subscription_id
    /\ r.mois = <<g.month.m, g.month.y>>

\* C7: create_monthly_retention_table gives every monthly row the relative
\* month and the cohort month of the journey that contains its transaction,
\* the values of the journey-based create_monthly_report
C7_SameAsJourneyBased ==
    (MonthlyReturned /\ Reported) =>
        \A i \in Rows(monthly_df), j \in Rows(final_df) :
            SameSubscriptionMonth(monthly_df[i], final_df[j]) =>
                /\ monthly_df[i].mois_relatif = final_df[j].month_relatif
                /\ monthly_df[i].date_debut_parcours
                       = <<final_df[j].journey_start_date.m,
                           final_df[j].journey_start_date.y>>

\* what create_monthly_retention_table does instead: every monthly row has
\* the month of the customer's earliest start date as cohort month and the
\* number of calendar months since that month as relative month (a
\* customer's subscriptions are not split into journeys); these are the
\* values of the journey-based create_monthly_report for the transactions
\* of the customer's first journey only
C7_FirstOrderMonth ==
    MonthlyReturned =>
        \A i \in Rows(monthly_df) :
            LET r == monthly_df[i]
                own == {k \in Rows(df_clean) :
                          df_clean[k].customer_id = r.customer_id}
                first == CHOOSE k \in own : \A l \in own :
                            DateLE(df_clean[k].order_date, df_clean[l].order_date)
                earliest == df_clean[first].order_date
            IN /\ r.date_debut_parcours = <<earliest.m, earliest.y>>
               /\ r.mois_relatif
                      = (r.mois[2] - earliest.y) * 12 + (r.mois[1] - earliest.m)
               /\ Reported =>
                     \A j \in Rows(final_df) :
                         (/\ SameSubscriptionMonth(r, final_df[j])
                          /\ \A k \in Rows(df_sorted) :
                                df_sorted[k].customer_id = r.customer_id =>
                                    final_df[j].id_parcours[2]
                                        <= df_sorted[k].id_parcours[2]) =>
                             /\ r.mois_relatif = final_df[j].month_relatif
                             /\ r.date_debut_parcours
                                    = <<final_df[j].journey_start_date.m,
                                        final_df[j].journey_start_date.y>>

\* both scripts have run on a customer with two journeys, and a monthly row
\* of the second journey is kept by both
C7_Witness ==
    /\ MonthlyReturned
    /\ Reported
    /\ \E i \in Rows(monthly_df), j \in Rows(final_df) :
          /\ SameSubscriptionMonth(monthly_df[i], final_df[j])
          /\ monthly_df[i].mois_relatif > final_df[j].month_relatif
          /\ final_df[j].month_relatif >= 0

\* C8: the table returned by create_monthly_retention_table has at most one
\* row per customer and month
C8_OneRowPerCustomerMonth ==
    MonthlyReturned =>
        \A i, j \in Rows(monthly_df) :
            (/\ monthly_df[i].customer_id = monthly_df[j].customer_id
             /\ monthly_df[i].mois = monthly_df[j].mois) => i = j

\* a customer had two transactions in the same month, and a row was dropped
C8_Witness ==
    /\ MonthlyReturned
    /\ \E i, j \in Rows(monthly_data) :
          /\ i # j
          /\ monthly_data[i].customer_id = monthly_data[j].customer_id
          /\ monthly_data[i].mois = monthly_data[j].mois
          /\ monthly_data[i].subscription_id # monthly_data[j].subscription_id
    /\ Len(monthly_df) < Len(monthly_data)

\* no two rows of a monthly report share customer_id and month
OneRowPerCustomerMonth(report) ==
    \A i, j \in Rows(report) :
        (/\ report[i].customer_id = report[j].customer_id
         /\ report[i].month = report[j].month) => i = j

\* C9: the table returned by create_monthly_report of analyse_abo_court,
\* of lancer_analyse and of rapport_final has at most one row per customer
\* and month
C9_OneRowPerCustomerMonthReport ==
    /\ Reported => OneRowPerCustomerMonth(final_df)
    /\ lpc = "report" => OneRowPerCustomerMonth(lancer_df)
    /\ rpc = "report" => OneRowPerCustomerMonth(rf_df)

\* what create_monthly_report does instead: its table has one row per
\* subscription and month: no two rows share subscription_id and month,
\* and a customer has as many rows for a month as subscriptions that cover
\* it, so two rows when two of the subscriptions cover the same month
C9_OneRowPerSubscriptionMonth ==
    Reported =>
        /\ \A i, j \in Rows(final_df) :
              (/\ final_df[i].subscription_id = final_df[j].subscription_id
               /\ final_df[i].month = final_df[j].month) => i = j
        /\ \A i \in Rows(final_df) :
              LET g == final_df[i]
                  month == g.month.y * 12 + g.month.m
                  covering ==
                      {k \in Rows(df) :
                          /\ df[k].customer_id = g.customer_id
                          /\ ~isna(df[k].order_date)
                          /\ ~isna(df[k].echeance_date)
                          /\ df[k].order_date.y * 12 + df[k].order_date.m <= month
                          /\ month <= df[k].echeance_date.y * 12
                                          + df[k].echeance_date.m}
              IN Cardinality({j \in Rows(final_df) :
                     /\ final_df[j].customer_id = g.customer_id
                     /\ final_df[j].month = g.month}) = Cardinality(covering)

\* a customer has two subscriptions that cover the same month, and the
\* report has a row for each
C9_Witness ==
    /\ Reported
    /\ \E i, j \in Rows(final_df) :
          /\ final_df[i].customer_id = final_df[j].customer_id
          /\ final_df[i].month = final_df[j].month
          /\ final_df[i].subscription_id # final_df[j].subscription_id

\* the transactions of df_clean of the customer of row r that cover its month
Covering(r) ==
    {k \in Rows(df_clean) :
        /\ df_clean[k].customer_id = r.customer_id
        /\ df_clean[k].order_date.y * 12 + df_clean[k].order_date.m
               <= r.mois[2] * 12 + r.mois[1]
        /\ r.mois[2] * 12 + r.mois[1]
               <= df_clean[k].echeance_date.y * 12 + df_clean[k].echeance_date.m}

\* C10: the row kept for a customer and a month carries the subscription,
\* the frequency, the revenue and the acquisition attributes of the first
\* transaction that covers the month, in processing order, which is the
\* order of the customer's start dates
C10_FirstTransactionKept ==
    MonthlyReturned =>
        /\ \A k, l \in Rows(df_clean) :
              (k < l /\ df_clean[k].customer_id = df_clean[l].customer_id) =>
                  DateLE(df_clean[k].order_date, df_clean[l].order_date)
        /\ \A i \in Rows(monthly_df) :
              LET r == monthly_df[i]
                  first == CHOOSE k \in Covering(r) : \A l \in Covering(r) : k <= l
              IN /\ Covering(r) # {}
                 /\ r.subscription_id = df_clean[first].subscription_id
                 /\ r.frequence = df_clean[first].frequence
                 /\ r.psp = df_clean[first].psp
                 /\ r.consolidated_revenues_ht_euro
                        = df_clean[first].consolidated_revenues_ht_euro

\* a month is covered by two transactions of different offers, and the one
\* that started first comes later in the file
C10_Witness ==
    /\ MonthlyReturned
    /\ \E i \in Rows(monthly_df) :
          \E k, l \in Covering(monthly_df[i]) :
              /\ k < l
              /\ df_clean[k].frequence # df_clean[l].frequence
              /\ df_clean[k].subscription_id > df_clean[l].subscription_id
              /\ monthly_df[i].subscription_id = df_clean[k].subscription_id

\* calculate_cohort_retention has returned a table, and main has gone on
RetentionReturned == pc \in {"retention", "trends", "segmented"}

\* calculate_segmented_retention has returned
Segmented == pc = "segmented"

\* the distinct customers of the selected rows of a frame
CustomersOf(frame, selected) == {frame[i].customer_id : i \in selected}

\* the rows of monthly_df of a cohort
CohortRows(cohort) ==
    {i \in Rows(monthly_df) : monthly_df[i].date_debut_parcours = cohort}

\* C11: for every cohort with customers at relative month 0 and every
\* relative month of the cohort's rows, the retention table has one row,
\* with clients_initiaux the number of distinct customers of the cohort at
\* month 0, clients_actifs the number of distinct customers of the cohort at
\* that month, and taux_retention the ratio of the two times 100, rounded to
\* the nearest hundredth; 40 active customers of 100 give 40.00
C11_RetentionRate ==
    /\ RetentionRate(40, 100) = 4000
    /\ RetentionReturned =>
          \A m \in Rows(monthly_df) :
              LET cohort == monthly_df[m].date_debut_parcours
                  month == monthly_df[m].mois_relatif
                  initial == Cardinality(CustomersOf(monthly_df,
                                 {i \in CohortRows(cohort) :
                                      monthly_df[i].mois_relatif = 0}))
                  active == Cardinality(CustomersOf(monthly_df,
                                {i \in CohortRows(cohort) :
                                     monthly_df[i].mois_relatif = month}))
                  points == {k \in Rows(retention_df) :
                                /\ retention_df[k].cohorte = cohort
                                /\ retention_df[k].mois_relatif = month}
              IN initial > 0 =>
                    /\ Cardinality(points) = 1
                    /\ \A k \in points :
                          LET error == retention_df[k].taux_retention * initial
                                           - active * 10000
                          IN /\ retention_df[k].clients_initiaux = initial
                             /\ retention_df[k].clients_actifs = active
                             /\ 2 * error <= initial
                             /\ -2 * error <= initial

\* a cohort of 11 customers of which 10 are active at a later month: 90.91
C11_Witness ==
    /\ RetentionReturned
    /\ \E k \in Rows(retention_df) :
          /\ retention_df[k].clients_initiaux = 11
          /\ retention_df[k].clients_actifs = 10
          /\ retention_df[k].mois_relatif > 0
          /\ retention_df[k].taux_retention = 9091

\* C12: in every table returned by calculate_segmented_retention, no row
\* has more active customers than initial customers or a retention rate
\* above 100, and the rate is 100 at relative month 0, whatever segment
\* values the later subscriptions of the customers carry
C12_SegmentWithinInitial ==
    Segmented =>
        \A k \in Rows(segmented_results) :
            /\ segmented_results[k].clients_actifs
                   <= segmented_results[k].clients_initiaux
            /\ segmented_results[k].taux_retention <= 10000
            /\ segmented_results[k].mois_relatif = 0 =>
                   segmented_results[k].taux_retention = 10000

\* C13: every monthly row falls in the revenue band that contains its
\* revenue r (a missing revenue counted as 0), the bands closed on the left
\* and open on the right: 0-5 iff 0 <= r < 5, 5-10 iff 5 <= r < 10, 10-15
\* iff 10 <= r < 15, 15-20 iff 15 <= r < 20, >20 iff r >= 20; a row with
\* r >= 0 is in exactly one band
C13_RevenueBands ==
    Segmented =>
        \A i \in Rows(monthly_df_clean) :
            LET row == monthly_df_clean[i]
                r == IF row.consolidated_revenues_ht_euro = NoRevenue THEN 0
                     ELSE row.consolidated_revenues_ht_euro
                band == row.revenue_tranche
            IN /\ band = "0-5" <=> (0 <= r /\ r < 5)
               /\ band = "5-10" <=> (5 <= r /\ r < 10)
               /\ band = "10-15" <=> (10 <= r /\ r < 15)
               /\ band = "15-20" <=> (15 <= r /\ r < 20)
               /\ band = ">20" <=> r >= 20
               /\ r >= 0 => band # NoValue

\* the distinct customers at relative month 0 of the rows of monthly_df_clean
\* of a cohort whose column has the value
SegmentInitial(column, value, cohort) ==
    Cardinality(CustomersOf(monthly_df_clean,
        {i \in Rows(monthly_df_clean) :
            /\ monthly_df_clean[i][column] = value
            /\ monthly_df_clean[i].date_debut_parcours = cohort
            /\ monthly_df_clean[i].mois_relatif = 0}))

\* C14, the segmented tables: a cohort of a segment value with fewer than
\* 10 customers at relative month 0 has no row in them
C14_SmallSegmentsLeftOut ==
    Segmented =>
        \A s \in 1..Len(segments), i \in Rows(monthly_df_clean) :
            LET value == monthly_df_clean[i][segments[s][2]]
                cohort == monthly_df_clean[i].date_debut_parcours
            IN SegmentInitial(segments[s][2], value, cohort) < 10 =>
                  ~\E k \in Rows(segmented_results) :
                        /\ segmented_results[k].segment_type = segments[s][1]
                        /\ segmented_results[k].segment_value = value
                        /\ segmented_results[k].cohorte = cohort

\* C14, the averages: a cohort with fewer than 50 customers at relative
\* month 0 has no row among those averaged by analyze_retention_trends, and
\* the averages count the initial customers of the other cohorts only
C14_SmallCohortsLeftOut ==
    Segmented =>
        /\ \A k \in Rows(significant_data) :
              significant_data[k].clients_initiaux >= 50
        /\ \A a \in Rows(avg_retention) :
              avg_retention[a].clients_initiaux =
                  SumSeq(LET kept == SelectSeq(retention_df, LAMBDA r :
                                 /\ r.mois_relatif = avg_retention[a].mois_relatif
                                 /\ r.clients_initiaux >= 50)
                         IN [k \in 1..Len(kept) |-> kept[k].clients_initiaux])

\* C14, the raw table: every cohort of the monthly table has rows in the
\* table returned by calculate_cohort_retention
C14_EveryCohortInRawTable ==
    Segmented =>
        \A i \in Rows(monthly_df) :
            \E k \in Rows(retention_df) :
                retention_df[k].cohorte = monthly_df[i].date_debut_parcours

\* C14: a cohort below the significance threshold (10 customers at relative
\* month 0 for a segment value, 50 for the averages of the trends) has no
\* row in the aggregate outputs, and every cohort of the monthly table is
\* in the raw retention table
C14_SmallCohorts ==
    /\ C14_SmallSegmentsLeftOut
    /\ C14_SmallCohortsLeftOut
    /\ C14_EveryCohortInRawTable

\* pipeline_JA.create_monthly_report has returned
ReportedJA == jpc = "report"

\* the rows of a monthly table made from the subscription of row i of df
RowsOfSubscription(frame, i) ==
    {k \in Rows(frame) : frame[k].subscription_id = df[i].subscription_id}

\* C15: in each of the three scripts, a transaction whose due date is before
\* its start date gives no monthly row
C15_NoRowWhenDueBeforeStart ==
    \A i \in Rows(df) :
        (/\ ~isna(df[i].order_date)
         /\ ~isna(df[i].echeance_date)
         /\ DateLT(df[i].echeance_date, df[i].order_date)) =>
            /\ Expanded => RowsOfSubscription(monthly_data, i) = {}
            /\ Reported => RowsOfSubscription(final_df, i) = {}
            /\ ReportedJA => RowsOfSubscription(ja_df, i) = {}

\* C15 for the transactions whose due month is before their start month,
\* without pipeline_JA
C15_NoRowWhenDueMonthBeforeStartMonth ==
    \A i \in Rows(df) :
        (/\ ~isna(df[i].order_date)
         /\ ~isna(df[i].echeance_date)
         /\ DateLT(FirstOfMonth(df[i].echeance_date),
                   FirstOfMonth(df[i].order_date))) =>
            /\ Expanded => RowsOfSubscription(monthly_data, i) = {}
            /\ Reported => RowsOfSubscription(final_df, i) = {}

\* the segmentation of the file without its subscriptions that miss a date
SegmentationOfDated ==
    JourneySegmentation(SelectSeq(df, LAMBDA row : /\ ~isna(row.order_date)
                                                   /\ ~isna(row.echeance_date)))

\* the row of a segmented frame that holds subscription id
RowOf(frame, id) == CHOOSE k \in Rows(frame) : frame[k].subscription_id = id

\* C17: in analyse_abo_court.create_monthly_report a subscription that
\* misses a date has no monthly row, and the other subscriptions get their
\* journeys and journey start dates as if it were not in the file
C17_UndatedExcludedFromSegmentation ==
    Reported =>
        LET clean == SegmentationOfDated
        IN /\ \A i \in Rows(df_sorted) :
                  ~Dated(i) =>
                      \A k \in Rows(final_df) :
                          final_df[k].subscription_id
                              # df_sorted[i].subscription_id
           /\ \A i \in Rows(df_sorted) :
                  Dated(i) =>
                      LET c == clean[RowOf(clean, df_sorted[i].subscription_id)]
                      IN /\ df_sorted[i].nouveau_parcours = c.nouveau_parcours
                         /\ df_sorted[i].journey_start_date
                                = c.journey_start_date
           /\ \A i, j \in Rows(df_sorted) :
                  (Dated(i) /\ Dated(j)) =>
                      LET ci == clean[RowOf(clean, df_sorted[i].subscription_id)]
                          cj == clean[RowOf(clean, df_sorted[j].subscription_id)]
                      IN (df_sorted[i].id_parcours = df_sorted[j].id_parcours)
                             <=> (ci.id_parcours = cj.id_parcours)

\* C17, the part on monthly rows alone: a subscription that misses a date
\* has no row in the monthly report
C17_UndatedHasNoMonthlyRow ==
    Reported =>
        \A i \in Rows(df_sorted) :
            ~Dated(i) =>
                \A k \in Rows(final_df) :
                    final_df[k].subscription_id # df_sorted[i].subscription_id

\* lancer_analyse.group_and_repair_data has returned a table
Repaired_lancer == lpc \in {"repaired", "report"}

\* rapport_final.group_and_repair_data has returned a table
Repaired_rapport == rpc = "repaired"

\* the rows of a table of subscriptions that hold subscription id
Holding(frame, id) == {k \in Rows(frame) : frame[k].subscription_id = id}

\* the subscriptions of the file, grouped
Subscriptions == GroupBySubscription(raw)

\* subscription g has no due date after parsing and reconstruction
DueStillMissing(g) ==
    /\ isna(to_datetime(g.echeance_date))
    /\ isna(to_datetime_parts(g.echeance_parts))

\* subscription g has a start date, parsed or rebuilt
StartKnown(g) ==
    \/ ~isna(to_datetime(g.order_date))
    \/ ~isna(to_datetime_parts(g.order_parts))

\* C18, for one repaired table: a subscription whose due date is still
\* missing is in the table, once, with a due date 30 days after its start
\* date, when its start date is known and its frequency contains 'monthly';
\* otherwise it is not in the table
ImputedOrDropped(frame) ==
    \A s \in Rows(Subscriptions) :
        LET g == Subscriptions[s]
            rows == Holding(frame, g.subscription_id)
        IN DueStillMissing(g) =>
               IF StartKnown(g) /\ ContainsMonthly(g.frequence)
               THEN /\ Cardinality(rows) = 1
                    /\ \A k \in rows :
                           /\ ~isna(frame[k].echeance_date)
                           /\ DaysBetween(frame[k].echeance_date,
                                          frame[k].order_date) = 30
               ELSE rows = {}

\* C18: in rapport_final and lancer_analyse, a subscription whose due date
\* is missing after parsing and reconstruction is kept with due date = start
\* date + 30 days if its start date is known and its frequency contains
\* 'monthly', and is dropped otherwise
C18_ImputedOrDropped ==
    /\ Repaired_lancer => ImputedOrDropped(df_grouped)
    /\ Repaired_rapport => ImputedOrDropped(rf_grouped)

\* both scripts have repaired a file in which one subscription got its due
\* date 30 days after its start date and another one was dropped
C18_Witness ==
    /\ Repaired_lancer
    /\ Repaired_rapport
    /\ \E s, t \in Rows(Subscriptions) :
          /\ DueStillMissing(Subscriptions[s])
          /\ DueStillMissing(Subscriptions[t])
          /\ Holding(df_grouped, Subscriptions[s].subscription_id) # {}
          /\ Holding(rf_grouped, Subscriptions[s].subscription_id) # {}
          /\ Holding(df_grouped, Subscriptions[t].subscription_id) = {}
          /\ Holding(rf_grouped, Subscriptions[t].subscription_id) = {}

\* the subscription of the file that row k of df_grouped was made from
Origin(k) == GroupRow(raw, df_grouped[k].subscription_id)

\* the date of one column of subscription g was read from its text
ParsedDirectly(cell) == ~isna(to_datetime(cell))

\* a date of subscription g was rebuilt from its year, month and day
Rebuilt(g) ==
    \/ ~ParsedDirectly(g.order_date) /\ ~isna(to_datetime_parts(g.order_parts))
    \/ /\ ~ParsedDirectly(g.echeance_date)
       /\ ~isna(to_datetime_parts(g.echeance_parts))

\* C19: for every subscription retained by lancer_analyse,
\* methode_reparation_date is 'Originale' iff both dates were parsed
\* directly, 'Imputee (+30j)' iff the due date was imputed, and
\* 'Reconstruite' iff a date was rebuilt and the due date was not imputed
C19_MethodeReparation ==
    Repaired_lancer =>
        \A k \in Rows(df_grouped) :
            LET g == Origin(k)
                methode == df_grouped[k].methode_reparation_date
                imputed == DueStillMissing(g)
            IN /\ (methode = "Originale") <=>
                      (ParsedDirectly(g.order_date)
                          /\ ParsedDirectly(g.echeance_date))
               /\ (methode = "Imputee (+30j)") <=> imputed
               /\ (methode = "Reconstruite") <=> (Rebuilt(g) /\ ~imputed)

\* lancer_analyse has retained a subscription with a rebuilt date and one
\* with an imputed due date whose start date was rebuilt
C19_Witness ==
    /\ Repaired_lancer
    /\ \E k, l \in Rows(df_grouped) :
          /\ df_grouped[k].methode_reparation_date = "Reconstruite"
          /\ df_grouped[l].methode_reparation_date = "Imputee (+30j)"
          /\ Rebuilt(Origin(l))

\* load_and_clean_data has returned
Loaded == pc # "start"

\* a row with its customer_id, its subscription_id and both its dates
Complete(row) ==
    /\ row.customer_id # NoCustomer
    /\ row.subscription_id # NoSubscription
    /\ ~isna(row.order_date)
    /\ ~isna(row.echeance_date)

\* C16, for Claude_retention_analysis: every row kept by
\* load_and_clean_data has its customer_id, its subscription_id and both
\* its dates
C16_ClaudeKeepsCompleteRows ==
    Loaded => \A k \in Rows(df_clean) : Complete(df_clean[k])

\* C16, for lancer_analyse: every row kept by group_and_repair_data has its
\* customer_id, its subscription_id and both its dates
C16_LancerKeepsCompleteRows ==
    Repaired_lancer => \A k \in Rows(df_grouped) : Complete(df_grouped[k])

\* C16, the count: the number of dropped subscriptions that lancer_analyse
\* prints is the number of grouped subscriptions minus the number kept
C16_DroppedCount ==
    Repaired_lancer =>
        supprimes = Len(GroupBySubscription(raw)) - Len(df_grouped)

\* C16: no transaction without customer_id, without subscription_id or
\* without one of its dates is left by load_and_clean_data or by
\* group_and_repair_data, so none reaches segmentation or expansion, and
\* the printed number of dropped rows is the number before minus the number
\* after
C16_IncompleteRowsDropped ==
    /\ C16_ClaudeKeepsCompleteRows
    /\ C16_LancerKeepsCompleteRows
    /\ C16_DroppedCount
    /\ Expanded =>
           \A k \in Rows(monthly_data) :
               /\ monthly_data[k].customer_id # NoCustomer
               /\ monthly_data[k].subscription_id # NoSubscription
    /\ lpc = "report" =>
           \A k \in Rows(lancer_df) :
               /\ lancer_df[k].customer_id # NoCustomer
               /\ lancer_df[k].subscription_id # NoSubscription

\* C16, what both scripts do drop: the rows without one of their dates
C16_UndatedRowsDropped ==
    /\ Loaded => \A k \in Rows(df_clean) :
                     ~isna(df_clean[k].order_date)
                         /\ ~isna(df_clean[k].echeance_date)
    /\ Repaired_lancer =>
           \A k \in Rows(df_grouped) :
               ~isna(df_grouped[k].order_date)
                   /\ ~isna(df_grouped[k].echeance_date)

\* the rows of a file reach the reads that a stage makes for its rows: a
\* transaction has a month in the loop of
\* Claude_retention_analysis.create_monthly_retention_table, the monthly
\* report of a gemini main has a row
RowsReach(s, file) ==
    IF s = "Claude_retention_analysis"
    THEN MonthlyData(load_and_clean_data(AsTransactions(file))) # <<>>
    ELSE Report(s, file) # <<>>

\* the columns that a stage reads by name on a file: those it reads
\* whatever the rows, and those it reads for the rows that reach the read
Reads(s, stage, file) ==
    Needs(s, stage)
        \cup (IF RowsReach(s, file) THEN NeedsOfRows(s, stage) ELSE {})

\* the columns a script cannot do without on a file: those one of its
\* stages reads by name
Required(s, file) ==
    UNION {Reads(s, Stages(s)[k], file) : k \in 1..Len(Stages(s))}

\* the source stops the script: the file cannot be read or lacks a column
\* the script requires
Fatal ==
    script \in Scripts /\ source \in Unreadable \cup Required(script, raw)

\* the first stage of the script that cannot work on the source
FailingStage ==
    IF source \in Unreadable THEN 1
    ELSE CHOOSE k \in 1..Len(Stages(script)) :
             /\ source \in Reads(script, Stages(script)[k], raw)
             /\ \A j \in 1..(k - 1) :
                    source \notin Reads(script, Stages(script)[j], raw)

\* C20: in each of the five mains, when the input file cannot be read or a
\* column that a stage of the script reads on the file is absent, the
\* output file is never written, and no stage from the one that cannot
\* work on the source onwards works through a table
C20_FatalStopsBeforeExport ==
    Fatal =>
        /\ ~written
        /\ mpc # "export"
        /\ \A i \in Rows(ran) :
               \E k \in 1..(FailingStage - 1) : Stages(script)[k] = ran[i]

\* a column that a script reads on some file
ReadOnSomeFile(s) ==
    UNION {Needs(s, Stages(s)[k]) \cup NeedsOfRows(s, Stages(s)[k]) :
               k \in 1..Len(Stages(s))}

\* an output file is written without a column that the script reads on
\* other files only by analyse_abo_court and rapport_final, and only from a
\* monthly report without rows, which no stage after the report reads
C20_OutputOnlyOfEmptyReport ==
    (script \in Scripts /\ source \in ReadOnSomeFile(script) /\ written) =>
        /\ script \in {"analyse_abo_court", "rapport_final"}
        /\ table = "empty"
        /\ Report(script, raw) = <<>>

\* a main has stopped without output in a stage after its loader: the file
\* lacks a column that the stage reads, and the stages before it had worked
\* through the table
C20_Witness ==
    /\ Fatal
    /\ source \in AbsentColumns
    /\ FailingStage > 2
    /\ Len(ran) = FailingStage - 1
    /\ mpc \in {"crashed", "failed"}
    /\ ~written

\* analyse_abo_court has written its output from a file without the psp
\* column, whose subscription has no month
C20_WrittenWithoutPsp ==
    /\ script = "analyse_abo_court"
    /\ source = "psp"
    /\ mpc = "export"
    /\ written

\* lancer_analyse.create_monthly_report has returned
Reported_lancer == lpc = "report"

\* the amount that C21 gives to a subscription
AmountDue(f, revenue) ==
    IF revenue \in {NoRevenue, UnparseableRevenue} THEN Twelfths(0)
    ELSE IF f # NoFrequence /\ StrLower(f) = monthly_text THEN Twelfths(12 * revenue)
    ELSE IF f # NoFrequence /\ StrLower(f) = annual_text THEN Twelfths(revenue)
    ELSE Twelfths(0)

\* every monthly row of a report has the amount of C21; sorted holds the
\* subscriptions the report was made from
AmountsAsDue(report, sorted) ==
    \A k \in Rows(report) :
        \A i \in Rows(sorted) :
            sorted[i].subscription_id = report[k].subscription_id =>
                report[k].Montant
                    = AmountDue(sorted[i].frequence,
                                sorted[i].consolidated_revenues_ht_euro)

\* C21: in analyse_abo_court and lancer_analyse, Montant of every monthly
\* row is the full revenue of its subscription when the frequency is
\* monthly, a twelfth of it when the frequency is annual, and 0 for any other
\* or absent frequency or when the revenue is not a number
C21_Montant ==
    /\ Reported => AmountsAsDue(final_df, df_sorted)
    /\ Reported_lancer => AmountsAsDue(lancer_df, lancer_sorted)

\* a frequency that is 'monthly' or 'annual' in any case, or holds neither
\* word
PlainFrequence(f) ==
    \/ StrLower(Str(f)) \in {monthly_text, annual_text}
    \/ ~InMonthly(f) /\ ~ContainsAnnual(f)

\* C21 for the subscriptions whose revenue cell is not empty and whose
\* frequency does not hold 'monthly' or 'annual' inside a longer text
C21_MontantOfKnownRevenue ==
    /\ Reported =>
           AmountsAsDue(SelectSeq(final_df, LAMBDA r : ~r.Montant.nan),
                        SelectSeq(df_sorted,
                                  LAMBDA r : PlainFrequence(r.frequence)))
    /\ Reported_lancer =>
           AmountsAsDue(SelectSeq(lancer_df, LAMBDA r : ~r.Montant.nan),
                        SelectSeq(lancer_sorted,
                                  LAMBDA r : PlainFrequence(r.frequence)))

\* the rows of the pipeline_JA report made from the subscription of row i of
\* df, in the order of the report
ReportOfJA(i) ==
    SelectSeq(ja_df, LAMBDA r : r.subscription_id = df[i].subscription_id)

\* C22: pipeline_JA.create_monthly_report gives to every subscription with
\* both dates, whose due date is not before its start date, one row per
\* calendar month from the month of order_date to the month of
\* ECHEANCE_date, the first one for the start month with month_relatif = 0,
\* whatever the day of order_date
C22_OneRowPerMonthJA ==
    ReportedJA =>
        \A i \in Rows(df) :
            (/\ ~isna(df[i].order_date)
             /\ ~isna(df[i].echeance_date)
             /\ DateLE(df[i].order_date, df[i].echeance_date)) =>
                LET rows == ReportOfJA(i)
                    first == FirstOfMonth(df[i].order_date)
                    n == MonthsDiff(FirstOfMonth(df[i].echeance_date), first) + 1
                IN /\ Len(rows) = n
                   /\ \A k \in 1..Len(rows) :
                          /\ rows[k].month = AddMonths(first, k - 1)
                          /\ rows[k].month_relatif = k - 1

\* C22 for the subscriptions that start on the first day of a month
C22_OneRowPerMonthFromFirstDay ==
    ReportedJA =>
        \A i \in Rows(df) :
            (/\ ~isna(df[i].order_date)
             /\ ~isna(df[i].echeance_date)
             /\ DateLE(df[i].order_date, df[i].echeance_date)
             /\ df[i].order_date.d = 1) =>
                LET rows == ReportOfJA(i)
                    first == FirstOfMonth(df[i].order_date)
                    n == MonthsDiff(FirstOfMonth(df[i].echeance_date), first) + 1
                IN /\ Len(rows) = n
                   /\ \A k \in 1..Len(rows) :
                          /\ rows[k].month = AddMonths(first, k - 1)
                          /\ rows[k].month_relatif = k - 1

\* create_monthly_retention_table has been run a second time
RunAgain == monthly_df_again # <<>>

\* the rows of a monthly table are the deduplicated rows of the loaded
\* transactions: a row for every month that a transaction covers, a row
\* only for such a month, and no two rows for a customer and a month
DeduplicatedRowsOfLoaded(frame) ==
    /\ \A k \in Rows(df_clean) :
          \A n \in (df_clean[k].order_date.y * 12 + df_clean[k].order_date.m)
                     ..(df_clean[k].echeance_date.y * 12
                            + df_clean[k].echeance_date.m) :
              \E i \in Rows(frame) :
                  /\ frame[i].customer_id = df_clean[k].customer_id
                  /\ frame[i].mois[2] * 12 + frame[i].mois[1] = n
    /\ \A i \in Rows(frame) : Covering(frame[i]) # {}
    /\ \A i, j \in Rows(frame) :
          (/\ frame[i].customer_id = frame[j].customer_id
           /\ frame[i].mois = frame[j].mois) => i = j

\* C23: each of two runs of create_monthly_retention_table on the same
\* loaded transactions returns their deduplicated rows, the second run the
\* same set of rows as the first; drop_duplicates(subset=['customer_id',
\* 'mois']) leaves the table of a run as it is, and makes of the rows of
\* both runs together the set of rows of one
C23_SameRowsWhenRunAgain ==
    /\ MonthlyReturned =>
           /\ DeduplicatedRowsOfLoaded(monthly_df)
           /\ DropDuplicateMonths(monthly_df) = monthly_df
    /\ RunAgain =>
           /\ DeduplicatedRowsOfLoaded(monthly_df_again)
           /\ \A i \in Rows(monthly_df) :
                  \E j \in Rows(monthly_df_again) :
                      monthly_df_again[j] = monthly_df[i]
           /\ \A j \in Rows(monthly_df_again) :
                  \E i \in Rows(monthly_df) :
                      monthly_df[i] = monthly_df_again[j]
           /\ DropDuplicateMonths(monthly_df_again) = monthly_df_again
           /\ Range(DropDuplicateMonths(monthly_df \o monthly_df_again))
                  = Range(monthly_df)

\* the function has been run twice on transactions that share a month:
\* the deduplication has dropped rows
C23_Witness ==
    /\ RunAgain
    /\ Len(monthly_df) < Len(monthly_data)
    /\ \E i, j \in Rows(monthly_data) :
          /\ i # j
          /\ monthly_data[i].customer_id = monthly_data[j].customer_id
          /\ monthly_data[i].mois = monthly_data[j].mois
          /\ monthly_data[i].subscription_id # monthly_data[j].subscription_id

\* find_revenue_upgrades has returned a table
UpgradesFound == upc \in {"found", "report"}

\* subscription p of the prepared table comes before subscription q in the
\* order of their start dates (the order of the table for equal dates)
StartsBefore(p, q) ==
    \/ DateLT(df_prepared[p].order_date, df_prepared[q].order_date)
    \/ df_prepared[p].order_date = df_prepared[q].order_date /\ p < q

\* the subscriptions of the customer of q that come before q
EarlierOf(q) ==
    {p \in Rows(df_prepared) :
        /\ df_prepared[p].customer_id = df_prepared[q].customer_id
        /\ StartsBefore(p, q)}

\* q is an upgrade: its customer has a subscription before it, and its
\* revenue is greater than the revenue of the last of them
IsUpgrade(q) ==
    \E p \in EarlierOf(q) :
        /\ \A o \in EarlierOf(q) : o = p \/ StartsBefore(o, p)
        /\ df_prepared[q].consolidated_revenues_ht_euro
               > df_prepared[p].consolidated_revenues_ht_euro

\* C24: find_revenue_upgrades returns exactly the subscriptions whose
\* revenue is strictly greater than the revenue of the subscription of the
\* same customer that comes immediately before them in order_date order
C24_ExactlyTheUpgrades ==
    UpgradesFound =>
        /\ \A q \in Rows(df_prepared) :
               IsUpgrade(q) <=>
                   \E k \in Rows(df_upgrades) :
                       df_upgrades[k].subscription_id
                           = df_prepared[q].subscription_id
        /\ \A k \in Rows(df_upgrades) :
               /\ \E q \in Rows(df_prepared) :
                      df_upgrades[k].subscription_id
                          = df_prepared[q].subscription_id
               /\ \A l \in Rows(df_upgrades) :
                      df_upgrades[l].subscription_id
                          = df_upgrades[k].subscription_id => l = k

\* three subscriptions of one customer, the second an upgrade and the third
\* with a revenue above the first one's but not above the second one's
C24_Witness ==
    /\ UpgradesFound
    /\ Len(df_upgrades) = 1
    /\ \E p, q, t \in Rows(df_prepared) :
          /\ df_prepared[p].customer_id = df_prepared[q].customer_id
          /\ df_prepared[q].customer_id = df_prepared[t].customer_id
          /\ StartsBefore(p, q)
          /\ StartsBefore(q, t)
          /\ df_prepared[q].consolidated_revenues_ht_euro
                 > df_prepared[p].consolidated_revenues_ht_euro
          /\ df_prepared[t].consolidated_revenues_ht_euro
                 > df_prepared[p].consolidated_revenues_ht_euro
          /\ df_prepared[t].consolidated_revenues_ht_euro
                 <= df_prepared[q].consolidated_revenues_ht_euro

\* C25: the report of recherche_upgrade.main holds, for every compared
\* characteristic that is in the data, the column of the previous
\* subscription and the column of the new one
C25_BothColumnsInReport ==
    upc = "report" =>
        \A c \in cols_to_shift :
            Column(c) \in PreparedColumns(up_columns) =>
                /\ Column(c) \in final_report_columns
                /\ Precedent(c) \in final_report_columns

\* C25 for every characteristic but the frequency
C25_BothColumnsButFrequence ==
    upc = "report" =>
        \A c \in cols_to_shift \ {"frequence"} :
            Column(c) \in PreparedColumns(up_columns) =>
                /\ Column(c) \in final_report_columns
                /\ Precedent(c) \in final_report_columns

\* the rows of the source file of customer c
SourceRowsOf(c) ==
    {df[i].subscription_id : i \in {j \in Rows(df) : df[j].customer_id = c}}

\* the rows of the output file of customer c
SampledRowsOf(c) ==
    {df_sampled[i].subscription_id :
        i \in {j \in Rows(df_sampled) : df_sampled[j].customer_id = c}}

\* the product of the distinct customers of the source and the fraction, in
\* double precision
SampleProduct ==
    ftimes(fdiv(double(fraction), 100), NUniqueCustomers(df))

\* C26: sample_by_customer_id writes exactly the rows of the customers
\* drawn: of every customer of the source all the rows or none, and as many
\* distinct customers as int(distinct customers of the source * fraction),
\* the whole part of the product made in double precision, the distinct
\* values counted as the script counts them
C26_WholeCustomers ==
    spc = "written" =>
        /\ \A i \in Rows(df_sampled) :
               \E j \in Rows(df) : df_sampled[i] = df[j]
        /\ \A c \in Range(SampledCustomers) :
               \/ SampledRowsOf(c) = SourceRowsOf(c)
               \/ SampledRowsOf(c) = {}
        /\ \A c \in Range(SampledCustomers) :
               SampledRowsOf(c) # {} <=> c \in sampled_customer_ids
        /\ IF NUniqueCustomers(df) = 0 THEN NUniqueCustomers(df_sampled) = 0
           ELSE /\ fcompare(SampleProduct, NUniqueCustomers(df_sampled), 1) >= 0
                /\ fcompare(SampleProduct, NUniqueCustomers(df_sampled) + 1, 1)
                       < 0

\* two customers drawn out of five or six, one of them with two rows, and a
\* customer of two rows left out
C26_Witness ==
    /\ spc = "written"
    /\ NUniqueCustomers(df_sampled) = 2
    /\ \E c \in Range(SampledCustomers) :
          Cardinality(SampledRowsOf(c)) = 2
    /\ \E c \in Range(SampledCustomers) :
          Cardinality(SourceRowsOf(c)) = 2 /\ SampledRowsOf(c) = {}

\* analyze_churn_characteristics has counted the customers
Analyzed == apc = "analyzed"

\* C27: the customers counted as churned within the first 3 months and the
\* customers counted as having stayed beyond are disjoint, and every
\* customer with a monthly row is in exactly one of the two
C27_ChurnersAndRetainedDisjoint ==
    Analyzed =>
        /\ customers_counted(df_churners) \cap customers_counted(df_retained)
               = {}
        /\ customers_counted(final_df)
               = customers_counted(df_churners)
                     \cup customers_counted(df_retained)

\* C27 for the journeys: every journey with a monthly row is in exactly one
\* of the two tables, and so is every monthly row
C27_JourneysInExactlyOne ==
    Analyzed =>
        /\ {df_churners[i].id_parcours : i \in Rows(df_churners)}
               \cap {df_retained[i].id_parcours : i \in Rows(df_retained)} = {}
        /\ Len(df_churners) + Len(df_retained) = Len(final_df)
        /\ \A i \in Rows(final_df) :
               \/ \E k \in Rows(df_churners) : df_churners[k] = final_df[i]
               \/ \E k \in Rows(df_retained) : df_retained[k] = final_df[i]

\* the monthly tables of the four scripts have been made
AllReported ==
    /\ pc \in {"monthly", "retention"}
    /\ gpc = "report"
    /\ lpc = "report"
    /\ rpc = "report"

\* C29: every monthly row of create_monthly_retention_table and of the
\* create_monthly_report of analyse_abo_court, lancer_analyse and
\* rapport_final has a relative month index of 0 or more
C29_RelativeMonthNotNegative ==
    /\ \A i \in Rows(monthly_data) : monthly_data[i].mois_relatif >= 0
    /\ \A i \in Rows(monthly_df) : monthly_df[i].mois_relatif >= 0
    /\ \A i \in Rows(final_df) : final_df[i].month_relatif >= 0
    /\ \A i \in Rows(lancer_df) : lancer_df[i].month_relatif >= 0
    /\ \A i \in Rows(rf_df) : rf_df[i].month_relatif >= 0

\* a customer whose second subscription of the file starts before the first
\* one, with rows for both in the four tables, some of them after month 0
C29_Witness ==
    /\ AllReported
    /\ Len(df) = 2
    /\ df[1].customer_id = df[2].customer_id
    /\ ~isna(df[1].order_date)
    /\ ~isna(df[2].order_date)
    /\ DateLT(df[2].order_date, df[1].order_date)
    /\ \A id \in {1, 2} :
          /\ \E i \in Rows(monthly_df) : monthly_df[i].subscription_id = id
          /\ \E i \in Rows(final_df) : final_df[i].subscription_id = id
          /\ \E i \in Rows(lancer_df) : lancer_df[i].subscription_id = id
          /\ \E i \in Rows(rf_df) : rf_df[i].subscription_id = id
    /\ \E i \in Rows(monthly_df) : monthly_df[i].mois_relatif > 0
    /\ \E i \in Rows(final_df) : final_df[i].month_relatif > 0
    /\ \E i \in Rows(lancer_df) : lancer_df[i].month_relatif > 0
    /\ \E i \in Rows(rf_df) : rf_df[i].month_relatif > 0

\* the callback has drawn the chart of a segment
SegmentDrawn == callbacks > 0 /\ selected_segment # "global"

\* C28: for a segment other than the global view, the view type decides the
\* figure: the grouped bars of the segments for 'comparison', the curves of
\* the evolution for 'evolution'
C28_ViewTypeDecides ==
    SegmentDrawn =>
        /\ view_type = "comparison" => figure.kind = "bars"
        /\ view_type = "evolution" => figure.kind \in {"curves", "insufficient"}

\* whatever the view type, the figure is the one of the evolution of the
\* segment under the cohort filter
C28_AlwaysEvolution ==
    SegmentDrawn =>
        LET prepared == prepare_segment_evolution_data(
                            segments_data, selected_segment, cohort_filter)
        IN /\ figure.kind \in {"curves", "insufficient"}
           /\ figure = create_segment_evolution_chart(
                           prepared.evolution_data, prepared.main_segments)

\* the valid rows of the sheet drawn, of the cohorts that the filter keeps
ValidRows ==
    SelectSeq(segments_data[selected_segment], LAMBDA row :
        /\ row.clients_initiaux > 0
        /\ row.clients_actifs >= 0
        /\ \/ cohort_filter = "all"
           \/ DateLE(Date(row.cohorte[2], row.cohorte[1], 1),
                     cutoff_date(cohort_filter)))

\* the initial customers of a segment value at month 0 among the valid rows
InitialCustomers(v) ==
    LET rows == SelectSeq(ValidRows, LAMBDA row :
                    row.segment_value = v /\ row.mois_relatif = 0)
    IN SumSeq([i \in 1..Len(rows) |-> rows[i].clients_initiaux])

\* prepare_segment_evolution_data has returned the evolution of a sheet
EvolutionReturned ==
    /\ SegmentDrawn
    /\ selected_segment \in DOMAIN segments_data

\* C30: every value that prepare_segment_evolution_data returns is None or
\* between 0 and 100, at most 3 segments are returned, the largest by their
\* initial customers at month 0 under the cohort filter, and the value of
\* every returned segment at month 0 is 100.0
C30_EvolutionValues ==
    EvolutionReturned =>
        /\ Len(main_segments) <= 3
        /\ \A i, j \in Rows(main_segments) :
               main_segments[i] = main_segments[j] => i = j
        /\ \A v \in Range(main_segments) :
               /\ InitialCustomers(v) > 0
               /\ \A w \in Range(SegmentValues) \ Range(main_segments) :
                      InitialCustomers(w) <= InitialCustomers(v)
        /\ Len(main_segments) < 3 =>
               \A w \in Range(SegmentValues) \ Range(main_segments) :
                   InitialCustomers(w) = 0
        /\ \A m \in Rows(evolution_data) :
               \A v \in Range(main_segments) :
                   \/ evolution_data[m].values[v] = None
                   \/ /\ ~evolution_data[m].values[v].none
                      /\ evolution_data[m].values[v].tenths >= 0
                      /\ evolution_data[m].values[v].tenths <= 1000
        /\ \A v \in Range(main_segments) :
               /\ evolution_data # <<>>
               /\ evolution_data[1].mois_relatif = 0
               /\ evolution_data[1].values[v] = Tenths(1000)

\* four segment values with valid rows at month 0, three of them returned,
\* one with fewer active than initial customers at month 0 and one with more
\* active customers at month 1 than initial ones
C30_Witness ==
    /\ EvolutionReturned
    /\ Len(main_segments) = 3
    /\ \A w \in Range(SegmentValues) : InitialCustomers(w) > 0
    /\ \E i \in Rows(ValidRows) :
          /\ ValidRows[i].mois_relatif = 0
          /\ ValidRows[i].segment_value \in Range(main_segments)
          /\ ValidRows[i].clients_actifs < ValidRows[i].clients_initiaux
    /\ \E i \in Rows(ValidRows) :
          /\ ValidRows[i].mois_relatif = 1
          /\ ValidRows[i].segment_value \in Range(main_segments)
          /\ ValidRows[i].clients_actifs
                 > InitialCustomers(ValidRows[i].segment_value)
          /\ evolution_data[2].values[ValidRows[i].segment_value]
                 = Tenths(1000)

====
